---- MODULE Spec2Model ----
(***************************************************************************)
(* Model of the cooperative task engine of cps_coro_lib.h: the Scheduler   *)
(* (virtual clock, ready queue, timer multimap, event-handler multimap),   *)
(* the Task handle and the Delay / EventAwaiter awaitables.                *)
(*                                                                         *)
(* A coroutine body is user code, so it is modelled as a nondeterministic  *)
(* sequence of the library calls it can make (delay, wait_for_event,       *)
(* trigger_event, creating another task, returning).  Resuming a coroutine *)
(* is a nested C++ call (h.resume()), so the model keeps the call stack of *)
(* bodies: stack[1] is the driver (main), the last frame is the body that  *)
(* is executing.  A frame whose todo is non-empty is inside trigger_event, *)
(* in the loop over handlers_to_call.                                      *)
(***************************************************************************)
EXTENDS Integers, Sequences, FiniteSets, TLC

\* ---------------------------------------------------------------- bounds
MaxTasks == 3      \* coroutines created in one run
MaxTime  == 2      \* largest virtual time (ms) a deadline or end time takes
MaxEvent == 2      \* event ids 1..MaxEvent
MaxVal   == 1      \* event payloads 1..MaxVal
MaxDelay == 2      \* delay(d) is called with d in 0..MaxDelay
MaxOps   == 4      \* library calls made by coroutine bodies in one run
MaxType  == 2      \* EventData types 1..MaxType (0: void)
MaxEmit  == 3      \* trigger_event calls whose deliveries are logged
MaxSched == 2      \* Scheduler objects 1..MaxSched of the several-scheduler program
MaxCoro  == 2      \* its coroutines 1..MaxCoro
MaxEntity == 2     \* Registry::create() is called at most MaxEntity times
MaxAddr  == 3      \* component objects the heap has room for
MaxBus   == 2      \* bus ids 1..MaxBus, at most MaxBus entries in bus_ids
MaxBranch == 2     \* branch ids 1..MaxBranch, at most MaxBranch branches passed
MaxFaults == 2     \* LOGIC_FAULT_EVENTs the scenario task injects in a run
MaxDevices == 2    \* device threads of the threaded simulation
MaxTick == 1       \* the oracle publishes the times 0..MaxTick and then ends the simulation

Tasks    == 1..MaxTasks
Times    == 0..MaxTime
EventIds == 1..MaxEvent
Vals     == 1..MaxVal
Delays   == 0..MaxDelay
DataTypes == 1..MaxType
Types    == 0..MaxType
Levels   == 1..(MaxTasks + 1)      \* depths of the call stack
Scheds   == 1..MaxSched
Coros    == 1..MaxCoro
Entities == 1..MaxEntity
Addrs    == 1..MaxAddr
BusIds   == 1..MaxBus
MaxNode  == MaxBus + 1     \* bus ids and slots of the networks that are analysed
Buses    == 1..MaxNode
BranchIds == 1..MaxBranch
\* component types, keyed by typeid(Comp).hash_code()
Kinds    == {"BreakerIdentityComponent", "BreakerStateComponent"}

VARIABLES
    now,        \* Scheduler::current_time_ (ms)
    ready,      \* Scheduler::ready_tasks_   : FIFO of handles
    timers,     \* Scheduler::timed_tasks_   : multimap deadline -> handle
    handlers,   \* Scheduler::event_handlers_: multimap event id -> handler
    st,         \* per coroutine: where its frame is suspended
    destroyed,  \* coroutine frames freed by handle_.destroy()
    owned,      \* coroutines whose Task handle has not been detached
    stack,      \* call stack of executing bodies, driver first
    drv,        \* the driver: which run loop it is in, and its last call
    crashed,    \* the process died resuming a freed frame
    ops,        \* library calls made by bodies so far
    due,        \* observation: now + d at the time delay(d) suspended
    delayOrder, \* observation: tasks pending on a delay, in registration order
    waitId,     \* observation: event id a task is waiting for
    subOrder,   \* observation: tasks pending on an event, in subscription order
    owed,       \* observation: emission (stack level) a subscriber belongs to
    yields,     \* observation: Len(ready) at each co_await delay(d) with d <= 0
    wtype,      \* EventData of the EventAwaiter a coroutine last suspended in
    utype,      \* EventData of the trigger_event call in progress, per stack level
    sent,       \* observation: trigger_event calls made so far
    num,        \* observation: the trigger_event call in progress, per stack level
    seen,       \* observation: per coroutine, the emissions it was resumed with
    asked,      \* observation: the last is_done() call and what it returned
    alive,      \* Scheduler objects constructed and not yet destroyed
    active,     \* AwaiterBase::active_scheduler_ (0: nullptr)
    timed,      \* per Scheduler: the handles in its timed_tasks_
    cst,        \* per coroutine of the several-scheduler program: its state
    running,    \* the coroutine whose body executes (0: main)
    by,         \* the Scheduler whose run_one_step resumed it (0: main)
    reg,        \* observation: where a coroutine's last co_await registered it
    resumer,    \* observation: who had resumed it when it made that co_await
    last_id,    \* Registry::last_id_
    components, \* Registry::components_: kind -> entity -> component (address, value)
    ptr,        \* observation: the last get<K>(e), what it returned, and whether
                \* emplace<K>(e) was called since
    args,       \* the vectors the driver passes to buildTopology
    adjacency_list,         \* PowerSystemTopology::adjacency_list
    bus_to_internal_idx,    \* ::bus_to_internal_idx, 0 for a bus id not in the map
    internal_idx_to_bus_id, \* ::internal_idx_to_bus_id
    branch_endpoints_map,   \* ::branch_endpoints_map
    result,     \* observation: how the last call on the topology returned
    answer,     \* observation: what the last read-only call on the topology returned
    logic,      \* LogicProtectionSystem: its scheduler, entities and tasks
    prot,       \* ProtectionSystem: its scheduler, registry and trip tasks
    threads     \* the threaded VPP simulation: shared data and thread positions

\* the scheduler, its coroutines and what is observed of them
core == <<now, ready, timers, handlers, st, destroyed, owned, stack, drv,
          crashed, ops, due, delayOrder, waitId, subOrder, owed>>
\* state that the untyped, single-scheduler program never changes
typed == <<wtype, utype>>
emis  == <<sent, num, seen>>
binding == <<alive, active, timed, cst, running, by, reg, resumer>>
registry == <<last_id, components, ptr>>
topology == <<args, adjacency_list, bus_to_internal_idx, internal_idx_to_bus_id,
              branch_endpoints_map, result>>
\* the three simulated systems built on the library
systems == <<logic, prot, threads>>
ext   == <<yields, typed, emis, asked, binding, registry, topology, answer, systems>>
vars == <<core, ext>>

\* ------------------------------------------------------------ helpers
SeqRemove(s, x) == SelectSeq(s, LAMBDA y : y # x)
IndexOf(s, x)   == CHOOSE i \in 1..Len(s) : s[i] = x
InSeq(s, x)     == \E i \in 1..Len(s) : s[i] = x
Before(s, x, y) == InSeq(s, x) /\ InSeq(s, y) /\ IndexOf(s, x) < IndexOf(s, y)

\* A frame: the coroutine t (0: the driver), how it came to run (from), what
\* it was resumed with (its deadline due, the payload got, the emission em and
\* the event id wid it waited for), and the trigger_event call it is inside
\* (id, val and the handlers still to call, todo).
DriverFrame == [t |-> 0, from |-> "drv", due |-> 0, got |-> 0, em |-> 0, wid |-> 0,
                todo |-> <<>>, id |-> 0, val |-> 0]
TaskFrame(h, from, d, v, em, wid) ==
    [t |-> h, from |-> from, due |-> d, got |-> v, em |-> em, wid |-> wid,
     todo |-> <<>>, id |-> 0, val |-> 0]
\* drv: the run call the driver is inside (op, end), and about the call that
\* returned last: which (last), its end time, whether now <= end held at the
\* call (pre), whether its loop body ran (ran), what run_one_step returned (ret)
IdleDrv == [op |-> "idle", end |-> 0, pre |-> FALSE, ran |-> FALSE, last |-> "none", ret |-> FALSE]

Top      == stack[Len(stack)]
Pop(stk) == SubSeq(stk, 1, Len(stk) - 1)
SetTop(stk, f) == [stk EXCEPT ![Len(stk)] = f]
\* the for loop of trigger_event has run out: the call returns to its caller
Settle(stk) ==
    LET f == stk[Len(stk)]
    IN  IF f.todo = <<>> THEN SetTop(stk, [f EXCEPT !.id = 0, !.val = 0]) ELSE stk
\* the executing body suspends or completes: control returns to its resumer
Return(stk) == Settle(Pop(stk))

\* ------------------------------------------------- the two multimaps
\* std::multimap::emplace puts an element after the elements with an
\* equivalent key (upper bound), so equal keys keep their insertion order.
\* mutant: a new entry goes before the entries with an equal deadline
TimerSlotLower(tm, at) == Cardinality({i \in 1..Len(tm) : tm[i].at < at})
TimerSlot(tm, at) == Cardinality({i \in 1..Len(tm) : tm[i].at <= at})

InsertTimer(tm, at, h) ==
    LET k == TimerSlot(tm, at)
    IN  SubSeq(tm, 1, k) \o <<[at |-> at, t |-> h]>> \o SubSeq(tm, k + 1, Len(tm))

\* mutant: a new handler goes before the handlers with an equal event id
HandlerSlotLower(hs, id) == Cardinality({i \in 1..Len(hs) : hs[i].id < id})
HandlerSlot(hs, id) == Cardinality({i \in 1..Len(hs) : hs[i].id <= id})

InsertHandler(hs, id, h) ==
    LET k == HandlerSlot(hs, id)
    IN  SubSeq(hs, 1, k) \o <<[id |-> id, t |-> h]>> \o SubSeq(hs, k + 1, Len(hs))

\* mutant: every registered handler is taken, whatever its event id
SnapshotAll(hs, id) == [k \in 1..Len(hs) |-> hs[k].t]

\* trigger_event: handlers_to_call, the copy of equal_range(event_id)
RECURSIVE Snapshot(_, _)
Snapshot(hs, id) ==
    IF hs = <<>> THEN <<>>
    ELSE IF Head(hs).id = id THEN <<Head(hs).t>> \o Snapshot(Tail(hs), id)
    ELSE Snapshot(Tail(hs), id)

\* mutant: the handlers found are left registered
EraseNothing(hs, id) == hs

\* trigger_event: event_handlers_.erase(range.first, range.second)
Erase(hs, id) == SelectSeq(hs, LAMBDA e : e.id # id)

\* ------------------------------------------------- awaiters and promise
\* mutant: Delay suspends whatever the duration
AwaitReadyNever(d) == FALSE

\* Delay::await_ready
AwaitReady(d) == d <= 0

\* Scheduler::schedule_after
ScheduleAfter(tm, n, d, h) == InsertTimer(tm, n + d, h)

\* mutant: a new coroutine is parked on the ready queue instead of started
LazyStart(rdy, stk, u) == [ready |-> Append(rdy, u), stack |-> stk, state |-> "new"]

\* promise_type::initial_suspend is std::suspend_never: the body of a new
\* coroutine starts inside the call that creates it.
InitialSuspend(rdy, stk, u) ==
    [ready |-> rdy, stack |-> Append(stk, TaskFrame(u, "new", 0, 0, 0, 0)), state |-> "run"]

\* mutant: the handler queues the coroutine instead of resuming it
HandlerSchedules(rdy, h) == [ready |-> Append(rdy, h), resume |-> 0]

\* The handler EventAwaiter registers: store the payload, then h.resume().
HandlerCall(rdy, h) == [ready |-> rdy, resume |-> h]

\* ------------------------------------------------- scheduler arithmetic
\* mutant: run_one_step drains the timers without moving the clock
StepTimeStay(n, tm) == n

\* run_one_step: move the clock to the earliest deadline, only forward
StepTime(n, tm) == IF Head(tm).at > n THEN Head(tm).at ELSE n

\* mutant: the drain loop does not look at the deadline
ExpiredAlways(at, n) == TRUE

\* the drain loops: while (!timed_tasks_.empty() && begin()->first <= current_time_)
Expired(at, n) == at <= n

RECURSIVE DuePrefix(_, _)
DuePrefix(tm, n) ==
    IF tm # <<>> /\ Expired(Head(tm).at, n) THEN 1 + DuePrefix(Tail(tm), n) ELSE 0

Handles(tm) == [i \in 1..Len(tm) |-> tm[i].t]

\* mutant: only the earliest timer is moved to the ready queue
DrainOne(rdy, tm, n) ==
    LET k == IF DuePrefix(tm, n) > 0 THEN 1 ELSE 0
    IN  [ready  |-> rdy \o Handles(SubSeq(tm, 1, k)),
         timers |-> SubSeq(tm, k + 1, Len(tm))]

Drain(rdy, tm, n) ==
    LET k == DuePrefix(tm, n)
    IN  [ready  |-> rdy \o Handles(SubSeq(tm, 1, k)),
         timers |-> SubSeq(tm, k + 1, Len(tm))]

\* mutant: a timer exactly at end_time is still run
StopsAtStrict(next, end) == next > end

\* run_until: if (next_event_time >= end_time) { set_time(end_time); break; }
StopsAt(next, end) == next >= end

\* mutants: the final set_time(end_time) without its guard, and left out
FinalTimeAlways(n, end) == end
FinalTimeNone(n, end) == n

\* run_until / run_real_time_until: if (current_time_ < end_time) set_time(end_time)
FinalTime(n, end) == IF n < end THEN end ELSE n

\* Scheduler::has_pending_tasks
HasPendingTasks(rdy, tm) == rdy # <<>> \/ tm # <<>>

\* Scheduler::run_one_step up to the resume: the new clock and queues, the
\* handle it pops (0: none) and its return value.
OneStep(n, rdy, tm) ==
    IF rdy # <<>> THEN
        [now |-> n, ready |-> Tail(rdy), timers |-> tm, h |-> Head(rdy), ret |-> TRUE]
    ELSE IF tm # <<>> THEN
        LET n2 == StepTime(n, tm)
            d  == Drain(rdy, tm, n2)
        IN  IF d.ready # <<>>
            THEN [now |-> n2, ready |-> Tail(d.ready), timers |-> d.timers,
                  h |-> Head(d.ready), ret |-> TRUE]
            ELSE [now |-> n2, ready |-> d.ready, timers |-> d.timers,
                  h |-> 0, ret |-> TRUE]
    ELSE [now |-> n, ready |-> rdy, timers |-> tm, h |-> 0, ret |-> FALSE]

\* Scheduler::run_until(end) from the top of its loop to its next resume:
\* the handle it resumes (0: it returns first) and the clock and queues then.
UntilResume(n, rdy, tm, end) ==
    IF ~(n < end /\ HasPendingTasks(rdy, tm)) THEN
        [now |-> FinalTime(n, end), ready |-> rdy, timers |-> tm, h |-> 0]
    ELSE IF rdy # <<>> THEN
        [now |-> n, ready |-> Tail(rdy), timers |-> tm, h |-> Head(rdy)]
    ELSE IF StopsAt(Head(tm).at, end) THEN
        [now |-> end, ready |-> rdy, timers |-> tm, h |-> 0]
    ELSE
        LET d == Drain(rdy, tm, Head(tm).at)
        IN  [now |-> Head(tm).at, ready |-> Tail(d.ready), timers |-> d.timers,
             h |-> Head(d.ready)]

\* ------------------------------------------------- resuming a handle
\* What h.resume() (guarded by !h.done() when checked) can do.  A handle
\* whose frame was destroyed dangles: done() reads freed memory and resume()
\* runs on it, so every outcome the build can produce is allowed.
Outcomes(h, checked) ==
    IF h = 0 THEN {"none"}
    ELSE IF h \in destroyed
         THEN (IF checked THEN {"skip"} ELSE {}) \cup {"run", "crash"}
    ELSE IF st[h] = "done" THEN (IF checked THEN {"skip"} ELSE {"crash"})
    ELSE {"run"}

Forget(f, h, z) == IF h = 0 THEN f ELSE [f EXCEPT ![h] = z]

DoResume(stk, h, v, o) ==
    /\ stack' = IF o = "run"
                THEN Append(stk, TaskFrame(h, st[h], due[h], v, owed[h], waitId[h]))
                ELSE Settle(stk)
    /\ st' = IF o = "run" THEN [st EXCEPT ![h] = "run"]
             ELSE IF o = "skip" /\ h \in destroyed THEN [st EXCEPT ![h] = "dead"]
             ELSE st
    /\ crashed' = (crashed \/ o = "crash")
    /\ IF o \in {"run", "skip"}
       THEN /\ due' = Forget(due, h, 0)
            /\ waitId' = Forget(waitId, h, 0)
            /\ owed' = Forget(owed, h, 0)
            /\ delayOrder' = SeqRemove(delayOrder, h)
            /\ subOrder' = SeqRemove(subOrder, h)
       ELSE UNCHANGED <<due, waitId, owed, delayOrder, subOrder>>

\* ------------------------------------------------- who is executing
AtDriver  == ~crashed /\ Len(stack) = 1 /\ Top.todo = <<>>
InBody    == ~crashed /\ Len(stack) > 1 /\ Top.todo = <<>> /\ ops < MaxOps
\* a point where user code (main or a coroutine body) makes a library call
CanCall   == (AtDriver /\ drv.op = "idle") \/ InBody
Spend     == IF Len(stack) > 1 THEN ops + 1 ELSE ops
FreeTask  == CHOOSE u \in Tasks : st[u] = "none" /\ \A w \in Tasks : w < u => st[w] # "none"

\* an emission as logged: its number in program order, the coroutine that
\* called trigger_event (0: main) and the count of library calls at the call
NoEmission == [n |-> 0, by |-> 0, at |-> 0]

\* no entry in components_[kind] for the entity; get returns nullptr
Absent == [addr |-> 0, val |-> 0]
NoPtr  == [k |-> "", e |-> 0, addr |-> 0, stale |-> FALSE]

\* buildTopology not called yet
NoArgs   == [bus_ids |-> <<>>, branch_ids |-> <<>>, branch_endpoints |-> <<>>, given |-> FALSE]
\* no read-only call made yet
NoAnswer == [fn |-> "none"]
\* a system that has not been constructed
NoSystem == [built |-> FALSE]
\* no entry in branch_endpoints_map
NoBranch == <<0, 0>>

Init ==
    /\ now = 0
    /\ ready = <<>>
    /\ timers = <<>>
    /\ handlers = <<>>
    /\ st = [t \in Tasks |-> "none"]
    /\ destroyed = {}
    /\ owned = {}
    /\ stack = <<DriverFrame>>
    /\ drv = IdleDrv
    /\ crashed = FALSE
    /\ ops = 0
    /\ due = [t \in Tasks |-> 0]
    /\ delayOrder = <<>>
    /\ waitId = [t \in Tasks |-> 0]
    /\ subOrder = <<>>
    /\ owed = [t \in Tasks |-> 0]
    /\ yields = <<>>
    /\ wtype = [t \in Tasks |-> 1]
    /\ utype = [i \in Levels |-> 1]
    /\ sent = 0
    /\ num = [i \in Levels |-> NoEmission]
    /\ seen = [t \in Tasks |-> <<>>]
    /\ asked = [t |-> 0, ret |-> FALSE]
    /\ alive = {}
    /\ active = 0
    /\ timed = [s \in Scheds |-> <<>>]
    /\ cst = [c \in Coros |-> "none"]
    /\ running = 0
    /\ by = 0
    /\ reg = [c \in Coros |-> -1]
    /\ resumer = [c \in Coros |-> 0]
    /\ last_id = 0
    /\ components = [k \in Kinds |-> [e \in Entities |-> Absent]]
    /\ ptr = NoPtr
    /\ args = NoArgs
    /\ adjacency_list = <<>>
    /\ bus_to_internal_idx = [b \in Buses |-> 0]
    /\ internal_idx_to_bus_id = <<>>
    /\ branch_endpoints_map = [b \in BranchIds |-> NoBranch]
    /\ result = "none"
    /\ answer = NoAnswer
    /\ logic = NoSystem
    /\ prot = NoSystem
    /\ threads = NoSystem

\* ------------------------------------------------- user code
\* Calling a coroutine function; the Task it returns is detached at once
\* (sub_task.detach(), protection_system.cpp) or kept by the caller.
CreateTask(keep) ==
    /\ UNCHANGED ext
    /\ CanCall
    /\ \E u \in Tasks : st[u] = "none"
    /\ LET u == FreeTask
           r == InitialSuspend(ready, stack, u)
       IN  /\ ready' = r.ready
           /\ stack' = r.stack
           /\ st' = [st EXCEPT ![u] = r.state]
    /\ owned' = IF keep THEN owned \cup {FreeTask} ELSE owned
    /\ ops' = Spend
    /\ drv' = IF Len(stack) = 1 THEN IdleDrv ELSE drv
    /\ UNCHANGED <<now, timers, handlers, destroyed, crashed,
                   due, delayOrder, waitId, subOrder, owed>>

Create == CreateTask(FALSE)

\* co_await delay(d) in the executing body
DelayAwait(d) ==
    /\ InBody
    /\ IF AwaitReady(d)
       THEN UNCHANGED <<timers, st, stack, due, delayOrder>>
       ELSE /\ now + d <= MaxTime
            /\ timers' = ScheduleAfter(timers, now, d, Top.t)
            /\ st' = [st EXCEPT ![Top.t] = "delay"]
            /\ stack' = Return(stack)
            /\ due' = [due EXCEPT ![Top.t] = now + d]
            /\ delayOrder' = Append(delayOrder, Top.t)
    /\ ops' = ops + 1
    /\ UNCHANGED <<now, ready, handlers, destroyed, owned, drv, crashed,
                   waitId, subOrder, owed>>

TaskDelay(d) == DelayAwait(d) /\ UNCHANGED ext

\* co_await wait_for_event(id) in the executing body
EventAwait(id) ==
    /\ InBody
    /\ handlers' = InsertHandler(handlers, id, Top.t)
    /\ st' = [st EXCEPT ![Top.t] = "event"]
    /\ stack' = Return(stack)
    /\ waitId' = [waitId EXCEPT ![Top.t] = id]
    /\ subOrder' = Append(subOrder, Top.t)
    /\ ops' = ops + 1
    /\ UNCHANGED <<now, ready, timers, destroyed, owned, drv, crashed,
                   due, delayOrder, owed>>

TaskWait(id) == EventAwait(id) /\ UNCHANGED ext

\* co_return / falling off the end of the body (final_suspend: suspend_always)
TaskFinish ==
    /\ UNCHANGED ext
    /\ ~crashed /\ Len(stack) > 1 /\ Top.todo = <<>>
    /\ st' = [st EXCEPT ![Top.t] = "done"]
    /\ stack' = Return(stack)
    /\ UNCHANGED <<now, ready, timers, handlers, destroyed, owned, drv, crashed,
                   ops, due, delayOrder, waitId, subOrder, owed>>

\* scheduler.trigger_event(id, v) up to the loop over handlers_to_call
TriggerEvent(id, v) ==
    /\ CanCall
    /\ LET snap == Snapshot(handlers, id)
       IN  /\ handlers' = Erase(handlers, id)
           /\ stack' = IF snap = <<>> THEN stack
                       ELSE SetTop(stack, [Top EXCEPT !.todo = snap, !.id = id, !.val = v])
    /\ owed' = [t \in Tasks |->
                  IF st[t] = "event" /\ waitId[t] = id /\ owed[t] = 0
                  THEN Len(stack) ELSE owed[t]]
    /\ ops' = Spend
    /\ drv' = IF Len(stack) = 1 THEN IdleDrv ELSE drv
    /\ UNCHANGED <<now, ready, timers, st, destroyed, owned, crashed,
                   due, delayOrder, waitId, subOrder>>

Trigger(id, v) == TriggerEvent(id, v) /\ UNCHANGED ext

\* mutant: the loop walks the live multimap, so it also reaches the
\* handlers registered under the id since the call began
RemainingLive(todo, hs, id) == Tail(todo) \o Snapshot(hs, id)

\* trigger_event walks handlers_to_call, its own copy: what is left after
\* the handler in front does not depend on event_handlers_
Remaining(todo, hs, id) == Tail(todo)

\* trigger_event: one iteration of  for (handler_func : handlers_to_call),
\* the handler storing v as its event_data_
Dispatch(v) ==
    /\ ~crashed
    /\ Top.todo # <<>>
    /\ LET h    == Head(Top.todo)
           rest == Remaining(Top.todo, handlers, Top.id)
           stk  == SetTop(stack, [Top EXCEPT !.todo = rest])
           r    == HandlerCall(ready, h)
       IN  /\ ready' = r.ready
           /\ \E o \in Outcomes(r.resume, FALSE) : DoResume(stk, r.resume, v, o)
    /\ UNCHANGED <<now, timers, handlers, destroyed, owned, drv, ops>>

DispatchNext == Dispatch(Top.val) /\ UNCHANGED ext

\* ------------------------------------------------- the driver's run calls
RunOneStep ==
    /\ UNCHANGED ext
    /\ AtDriver /\ drv.op = "idle"
    /\ LET r == OneStep(now, ready, timers)
       IN  /\ now' = r.now
           /\ ready' = r.ready
           /\ timers' = r.timers
           /\ drv' = [IdleDrv EXCEPT !.last = "step", !.ret = r.ret]
           /\ \E o \in Outcomes(r.h, TRUE) : DoResume(stack, r.h, 0, o)
    /\ UNCHANGED <<handlers, destroyed, owned, ops>>

Returned(kind, end, pre, ran) ==
    [op |-> "idle", end |-> end, pre |-> pre, ran |-> ran, last |-> kind, ret |-> FALSE]

\* run_until(D): the first test of the while condition
CallRunUntil(D) ==
    /\ UNCHANGED ext
    /\ AtDriver /\ drv.op = "idle"
    /\ IF now < D /\ HasPendingTasks(ready, timers)
       THEN /\ drv' = [op |-> "until", end |-> D, pre |-> (now <= D), ran |-> TRUE, last |-> "none", ret |-> FALSE]
            /\ now' = now
       ELSE /\ drv' = Returned("until", D, now <= D, FALSE)
            /\ now' = FinalTime(now, D)
    /\ UNCHANGED <<ready, timers, handlers, st, destroyed, owned, stack, crashed, ops,
                   due, delayOrder, waitId, subOrder, owed>>

\* run_until: the loop body from one resume to the next, or to the return
RunUntilStep ==
    /\ UNCHANGED ext
    /\ AtDriver /\ drv.op = "until"
    /\ IF ready # <<>> THEN
          /\ ready' = Tail(ready)
          /\ \E o \in Outcomes(Head(ready), TRUE) : DoResume(stack, Head(ready), 0, o)
          /\ UNCHANGED <<now, timers, drv>>
       ELSE IF timers # <<>> THEN
          IF StopsAt(Head(timers).at, drv.end)
          THEN /\ now' = FinalTime(drv.end, drv.end)
               /\ drv' = Returned("until", drv.end, drv.pre, TRUE)
               /\ UNCHANGED <<ready, timers, st, stack, crashed,
                              due, delayOrder, waitId, subOrder, owed>>
          ELSE LET n2 == Head(timers).at
                   d  == Drain(ready, timers, n2)
                   again == n2 < drv.end /\ HasPendingTasks(d.ready, d.timers)
               IN  /\ now' = IF again THEN n2 ELSE FinalTime(n2, drv.end)
                   /\ ready' = d.ready
                   /\ timers' = d.timers
                   /\ drv' = IF again THEN drv ELSE Returned("until", drv.end, drv.pre, TRUE)
                   /\ UNCHANGED <<st, stack, crashed,
                                  due, delayOrder, waitId, subOrder, owed>>
       ELSE /\ now' = FinalTime(now, drv.end)
            /\ drv' = Returned("until", drv.end, drv.pre, TRUE)
            /\ UNCHANGED <<ready, timers, st, stack, crashed,
                           due, delayOrder, waitId, subOrder, owed>>
    /\ UNCHANGED <<handlers, destroyed, owned, ops>>


\* run_real_time_until(D): entry (wall-clock sleeps change no scheduler state)
CallRealTime(D) ==
    /\ UNCHANGED ext
    /\ AtDriver /\ drv.op = "idle"
    /\ drv' = [op |-> "rt", end |-> D, pre |-> (now <= D), ran |-> FALSE, last |-> "none", ret |-> FALSE]
    /\ UNCHANGED <<now, ready, timers, handlers, st, destroyed, owned, stack, crashed,
                   ops, due, delayOrder, waitId, subOrder, owed>>

\* run_real_time_until: one iteration of the while loop, or the return
RealTimeStep ==
    /\ UNCHANGED ext
    /\ AtDriver /\ drv.op = "rt"
    /\ IF now < drv.end /\ HasPendingTasks(ready, timers)
       THEN LET r == OneStep(now, ready, timers)
            IN  /\ now' = r.now
                /\ ready' = r.ready
                /\ timers' = r.timers
                /\ \E o \in Outcomes(r.h, TRUE) : DoResume(stack, r.h, 0, o)
                /\ drv' = [drv EXCEPT !.ran = TRUE]
       ELSE /\ now' = FinalTime(now, drv.end)
            /\ drv' = Returned("rt", drv.end, drv.pre, drv.ran)
            /\ UNCHANGED <<ready, timers, st, stack, crashed,
                           due, delayOrder, waitId, subOrder, owed>>
    /\ UNCHANGED <<handlers, destroyed, owned, ops>>

\* ------------------------------------------------- cancellation
\* Calling a coroutine function and keeping the Task it returns.
CreateOwned == CreateTask(TRUE)

\* ~Task on a kept handle whose coroutine is suspended: handle_.destroy().
\* Nothing is removed from timed_tasks_, ready_tasks_ or event_handlers_.
DropHandle(u) ==
    /\ UNCHANGED ext
    /\ CanCall
    /\ u \in owned
    /\ st[u] \in {"delay", "event"}
    /\ destroyed' = destroyed \cup {u}
    /\ owned' = owned \ {u}
    /\ ops' = Spend
    /\ drv' = IF Len(stack) = 1 THEN IdleDrv ELSE drv
    /\ UNCHANGED <<now, ready, timers, handlers, st, stack, crashed,
                   due, delayOrder, waitId, subOrder, owed>>

\* ------------------------------------------------- specifications
Next ==
    \/ Create
    \/ \E d \in Delays : TaskDelay(d)
    \/ \E id \in EventIds : TaskWait(id)
    \/ TaskFinish
    \/ \E id \in EventIds, v \in Vals : Trigger(id, v)
    \/ DispatchNext
    \/ RunOneStep
    \/ \E D \in Times : CallRunUntil(D)
    \/ RunUntilStep
    \/ \E D \in Times : CallRealTime(D)
    \/ RealTimeStep

Spec == Init /\ [][Next]_vars

\* The same program when Task handles may also be kept and dropped.
NextCancel ==
    \/ Next
    \/ CreateOwned
    \/ \E u \in Tasks : DropHandle(u)

SpecCancel == Init /\ [][NextCancel]_vars

\* The scheduler stepped by run_one_step, with every co_await delay(d) of a
\* non-positive d noted.
TaskDelayNoted(d) ==
    /\ DelayAwait(d)
    /\ yields' = IF d <= 0 THEN Append(yields, Len(ready)) ELSE yields
    /\ UNCHANGED <<typed, emis, asked, binding, registry, topology, answer, systems>>

NextYield ==
    \/ Create
    \/ \E d \in Delays : TaskDelayNoted(d)
    \/ TaskFinish
    \/ RunOneStep

SpecYield == Init /\ [][NextYield]_vars

\* Tasks that publish and subscribe, with every trigger_event call numbered
\* and every resumption by an event logged at the resumed coroutine.
TriggerNumbered(id, v) ==
    /\ sent < MaxEmit
    /\ TriggerEvent(id, v)
    /\ sent' = sent + 1
    /\ num' = [num EXCEPT ![Len(stack)] = [n |-> sent + 1, by |-> Top.t, at |-> ops]]
    /\ UNCHANGED <<yields, typed, seen, asked, binding, registry, topology, answer, systems>>

DispatchSeen ==
    /\ Dispatch(Top.val)
    /\ seen' = [t \in Tasks |->
                  IF st[t] = "event" /\ st'[t] = "run"
                  THEN Append(seen[t], num[Len(stack)]) ELSE seen[t]]
    /\ UNCHANGED <<yields, typed, sent, num, asked, binding, registry, topology, answer, systems>>

NextEmit ==
    \/ Create
    \/ \E id \in EventIds : TaskWait(id)
    \/ TaskFinish
    \/ \E id \in EventIds, v \in Vals : TriggerNumbered(id, v)
    \/ DispatchSeen

SpecEmit == Init /\ [][NextEmit]_vars

\* Publishers and subscribers that name their EventData types.
\* What the handler of an EventAwaiter<T> stores when trigger_event<U>
\* passes it the address of v: EventAwaiter<void> ignores the pointer;
\* otherwise event_data_ = *static_cast<const T*>(data), which for T # U
\* reads a U object as a T: any T value may come out, or the read faults.
Received(T, U, v) ==
    IF T = 0 THEN [vals |-> {0}, ub |-> FALSE]
    ELSE IF T = U THEN [vals |-> {v}, ub |-> FALSE]
    ELSE [vals |-> 0..MaxVal, ub |-> TRUE]

\* co_await wait_for_event<T>(id)
TaskWaitAs(id, T) ==
    /\ EventAwait(id)
    /\ wtype' = [wtype EXCEPT ![Top.t] = T]
    /\ UNCHANGED <<yields, utype, emis, asked, binding, registry, topology, answer, systems>>

\* scheduler.trigger_event<U>(id, v)
TriggerAs(id, U, v) ==
    /\ TriggerEvent(id, v)
    /\ utype' = [utype EXCEPT ![Len(stack)] = U]
    /\ UNCHANGED <<yields, wtype, emis, asked, binding, registry, topology, answer, systems>>

DispatchTyped ==
    /\ ~crashed
    /\ Top.todo # <<>>
    /\ LET r == Received(wtype[Head(Top.todo)], utype[Len(stack)], Top.val)
       IN  \/ \E v \in r.vals : Dispatch(v)
           \/ /\ r.ub
              /\ crashed' = TRUE
              /\ UNCHANGED <<now, ready, timers, handlers, st, destroyed, owned, stack,
                             drv, ops, due, delayOrder, waitId, subOrder, owed>>
    /\ UNCHANGED ext

NextTyped ==
    \/ Create
    \/ \E id \in EventIds, T \in Types : TaskWaitAs(id, T)
    \/ TaskFinish
    \/ \E id \in EventIds, U \in DataTypes, v \in Vals : TriggerAs(id, U, v)
    \/ DispatchTyped

SpecTyped == Init /\ [][NextTyped]_vars

\* The driver stepping the scheduler with run_one_step and moving the clock
\* itself with set_time and advance_time.
SetTime(t) ==
    /\ AtDriver /\ drv.op = "idle"
    /\ now' = t
    /\ drv' = IdleDrv
    /\ UNCHANGED <<ready, timers, handlers, st, destroyed, owned, stack, crashed, ops,
                   due, delayOrder, waitId, subOrder, owed>>
    /\ UNCHANGED ext

AdvanceTime(delta) ==
    /\ AtDriver /\ drv.op = "idle"
    /\ now + delta <= MaxTime
    /\ now' = now + delta
    /\ drv' = IdleDrv
    /\ UNCHANGED <<ready, timers, handlers, st, destroyed, owned, stack, crashed, ops,
                   due, delayOrder, waitId, subOrder, owed>>
    /\ UNCHANGED ext

NextClock ==
    \/ Create
    \/ \E d \in Delays : TaskDelay(d)
    \/ \E id \in EventIds : TaskWait(id)
    \/ TaskFinish
    \/ RunOneStep
    \/ \E t \in Times : SetTime(t)
    \/ \E delta \in 1..MaxDelay : AdvanceTime(delta)

SpecClock == Init /\ [][NextClock]_vars

\* The driver moving the clock itself and then running the scheduler with
\* run_until, also to a time after every time it can set.
NextOverdue ==
    \/ Create
    \/ \E d \in Delays : TaskDelay(d)
    \/ TaskFinish
    \/ \E t \in Times : SetTime(t)
    \/ \E delta \in 1..MaxDelay : AdvanceTime(delta)
    \/ \E D \in 0..(MaxTime + 1) : CallRunUntil(D)
    \/ RunUntilStep

SpecOverdue == Init /\ [][NextOverdue]_vars

\* Task handles that are kept, asked with is_done() and detached later.
\* Task::handle_ of the Task returned for coroutine u (0: nullptr)
HandleOf(u) == IF u \in owned THEN u ELSE 0

\* std::coroutine_handle::done(): suspended at the final suspend point
Done(h) == st[h] = "done"

\* mutant: an empty handle is not reported as done
IsDoneStrict(h) == h # 0 /\ Done(h)

\* Task::is_done
IsDone(h) == h = 0 \/ Done(h)

\* task.is_done() called by main on the Task of coroutine u
IsDoneCall(u) ==
    /\ AtDriver /\ drv.op = "idle"
    /\ st[u] # "none"
    /\ asked' = [t |-> u, ret |-> IsDone(HandleOf(u))]
    /\ drv' = IdleDrv
    /\ UNCHANGED <<now, ready, timers, handlers, st, destroyed, owned, stack, crashed,
                   ops, due, delayOrder, waitId, subOrder, owed>>
    /\ UNCHANGED <<yields, typed, emis, binding, registry, topology, answer, systems>>

\* task.detach() called by main on a kept Task: handle_ = nullptr
Detach(u) ==
    /\ AtDriver /\ drv.op = "idle"
    /\ u \in owned
    /\ owned' = owned \ {u}
    /\ drv' = IdleDrv
    /\ UNCHANGED <<now, ready, timers, handlers, st, destroyed, stack, crashed,
                   ops, due, delayOrder, waitId, subOrder, owed>>
    /\ UNCHANGED ext

NextHandle ==
    \/ CreateOwned
    \/ \E u \in Tasks : Detach(u)
    \/ \E u \in Tasks : IsDoneCall(u)
    \/ \E d \in Delays : TaskDelay(d)
    \/ TaskWait(1)        \* nothing is triggered here: one event id is enough
    \/ TaskFinish
    \/ RunOneStep

SpecHandle == Init /\ [][NextHandle]_vars

\* A program that constructs and destroys several Scheduler objects on one
\* thread.  Every delay is of the same positive duration, so a Scheduler's
\* timed_tasks_ is the sequence of the handles registered with it.
\* Scheduler::Scheduler: active_scheduler_ = this
Construct(s) ==
    /\ running = 0
    /\ s \notin alive
    /\ alive' = alive \cup {s}
    /\ active' = s
    /\ UNCHANGED <<timed, cst, running, by, reg, resumer>>
    /\ UNCHANGED <<core, yields, typed, emis, asked, registry, topology, answer, systems>>

\* Scheduler::~Scheduler: the pointer is cleared only if it points to this
\* object; the handles still in the containers go with them
Destruct(s) ==
    /\ running = 0
    /\ s \in alive
    /\ alive' = alive \ {s}
    /\ active' = IF active = s THEN 0 ELSE active
    /\ timed' = [timed EXCEPT ![s] = <<>>]
    /\ UNCHANGED <<cst, running, by, reg, resumer>>
    /\ UNCHANGED <<core, yields, typed, emis, asked, registry, topology, answer, systems>>

\* main calls a coroutine function: the body starts at once
Spawn(c) ==
    /\ running = 0
    /\ cst[c] = "none"
    /\ cst' = [cst EXCEPT ![c] = "run"]
    /\ running' = c
    /\ by' = 0
    /\ UNCHANGED <<alive, active, timed, reg, resumer>>
    /\ UNCHANGED <<core, yields, typed, emis, asked, registry, topology, answer, systems>>

\* Delay::await_suspend in the executing body: schedule_after on the active
\* scheduler, or handle.resume() at once if there is none
CoAwait ==
    /\ running # 0
    /\ reg' = [reg EXCEPT ![running] = active]
    /\ resumer' = [resumer EXCEPT ![running] = by]
    /\ IF active # 0
       THEN /\ timed' = [timed EXCEPT ![active] = Append(@, running)]
            /\ cst' = [cst EXCEPT ![running] = "wait"]
            /\ running' = 0
            /\ by' = 0
       ELSE UNCHANGED <<timed, cst, running, by>>
    /\ UNCHANGED <<alive, active>>
    /\ UNCHANGED <<core, yields, typed, emis, asked, registry, topology, answer, systems>>

\* the executing body returns
CoReturn ==
    /\ running # 0
    /\ cst' = [cst EXCEPT ![running] = "done"]
    /\ running' = 0
    /\ by' = 0
    /\ UNCHANGED <<alive, active, timed, reg, resumer>>
    /\ UNCHANGED <<core, yields, typed, emis, asked, registry, topology, answer, systems>>

\* s.run_one_step() called by main: the earliest handle of s is resumed
StepOf(s) ==
    /\ running = 0
    /\ s \in alive
    /\ timed[s] # <<>>
    /\ timed' = [timed EXCEPT ![s] = Tail(@)]
    /\ cst' = [cst EXCEPT ![Head(timed[s])] = "run"]
    /\ running' = Head(timed[s])
    /\ by' = s
    /\ UNCHANGED <<alive, active, reg, resumer>>
    /\ UNCHANGED <<core, yields, typed, emis, asked, registry, topology, answer, systems>>

NextSched ==
    \/ \E s \in Scheds : Construct(s)
    \/ \E s \in Scheds : Destruct(s)
    \/ \E c \in Coros : Spawn(c)
    \/ CoAwait
    \/ CoReturn
    \/ \E s \in Scheds : StepOf(s)

SpecSched == Init /\ [][NextSched]_vars

\* The same driver with run_real_time_until added.
NextRealTime ==
    \/ NextClock
    \/ \E D \in Times : CallRealTime(D)
    \/ RealTimeStep

SpecRealTime == Init /\ [][NextRealTime]_vars

\* The Registry of ecs_core.h.
\* addresses of the component objects alive
Live(comps) == {comps[k][e].addr : k \in Kinds, e \in Entities} \ {0}

\* std::make_unique<Comp>: storage that no living object occupies
MakeUnique(comps) == Addrs \ Live(comps)

\* mutant: the map of the kind is replaced by one holding the new entry only
StoreAlone(comps, k, e, c) ==
    [comps EXCEPT ![k] = [x \in Entities |-> IF x = e THEN c ELSE Absent]]

\* components_[typeid(Comp).hash_code()][e] = std::move(ptr): the entry is
\* created or overwritten, the unique_ptr it held destroys its component
Store(comps, k, e, c) == [comps EXCEPT ![k][e] = c]

\* Registry::get: the address held for (kind, entity), or nullptr
Get(comps, k, e) == comps[k][e].addr

\* Registry::create
RegCreate ==
    /\ last_id < MaxEntity
    /\ last_id' = last_id + 1
    /\ UNCHANGED <<components, ptr>>
    /\ UNCHANGED <<core, yields, typed, emis, asked, binding, topology, answer, systems>>

\* Registry::emplace<Comp>(e, v) on an entity create() returned
RegEmplace(k, e, v) ==
    /\ e <= last_id
    /\ \E a \in MakeUnique(components) :
          components' = Store(components, k, e, [addr |-> a, val |-> v])
    /\ ptr' = IF ptr.k = k /\ ptr.e = e THEN [ptr EXCEPT !.stale = TRUE] ELSE ptr
    /\ UNCHANGED last_id
    /\ UNCHANGED <<core, yields, typed, emis, asked, binding, topology, answer, systems>>

\* Registry::get<Comp>(e), for any entity id
RegGet(k, e) ==
    /\ ptr' = [k |-> k, e |-> e, addr |-> Get(components, k, e), stale |-> FALSE]
    /\ UNCHANGED <<last_id, components>>
    /\ UNCHANGED <<core, yields, typed, emis, asked, binding, topology, answer, systems>>

\* Registry::for_each<Comp>(fn), fn reading the components it is given
RegForEach(k) ==
    /\ \E e \in Entities : components[k][e] # Absent
    /\ UNCHANGED registry
    /\ UNCHANGED <<core, yields, typed, emis, asked, binding, topology, answer, systems>>

NextRegistry ==
    \/ RegCreate
    \/ \E k \in Kinds, e \in Entities, v \in Vals : RegEmplace(k, e, v)
    \/ \E k \in Kinds, e \in Entities : RegGet(k, e)
    \/ \E k \in Kinds : RegForEach(k)

SpecRegistry == Init /\ [][NextRegistry]_vars

\* PowerSystemTopology. Internal indices are 1-based here (index i of the
\* code is i + 1), and 0 stands for the -1 of getBusInternalIndex.
SeqsUpTo(S, n) == UNION {[1..k -> S] : k \in 0..n}

\* the loop bus_to_internal_idx[bus_ids[i]] = i: the last position of an id
BusIndex(bus_ids) ==
    [b \in Buses |->
        LET I == {i \in 1..Len(bus_ids) : bus_ids[i] = b}
        IN  IF I = {} THEN 0 ELSE CHOOSE i \in I : \A j \in I : j <= i]

\* mutant: the branch is entered under its first bus only
ConnectOneWay(adj, u, v, b) ==
    [adj EXCEPT ![u] = Append(@, [branch_id |-> b, internal_bus_idx |-> v])]

\* adjacency_list[u_idx].push_back({b, v_idx});
\* adjacency_list[v_idx].push_back({b, u_idx})
Connect(adj, u, v, b) ==
    LET a1 == [adj EXCEPT ![u] = Append(@, [branch_id |-> b, internal_bus_idx |-> v])]
    IN  [a1 EXCEPT ![v] = Append(@, [branch_id |-> b, internal_bus_idx |-> u])]

\* the loop over the branches from position i on
RECURSIVE AddBranches(_, _, _, _, _, _)
AddBranches(adj, bem, idx, br, ep, i) ==
    IF i > Len(br) THEN [adj |-> adj, bem |-> bem]
    ELSE LET u == idx[ep[i][1]]
             v == idx[ep[i][2]]
         IN  IF u = 0 \/ v = 0
             THEN AddBranches(adj, bem, idx, br, ep, i + 1)
             ELSE AddBranches(Connect(adj, u, v, br[i]),
                              [bem EXCEPT ![br[i]] = ep[i]], idx, br, ep, i + 1)

\* getBusInternalIndex
GetBusInternalIndex(b) == bus_to_internal_idx[b]

\* mutant: every entry towards idx is taken out, whatever its branch
EraseConnsAny(conns, idx, b) ==
    LET Keep(c) == c.internal_bus_idx # idx
    IN  SelectSeq(conns, Keep)

\* erase(remove_if(...)): the entries of the branch towards idx are taken out
EraseConns(conns, idx, b) ==
    LET Keep(c) == ~(c.internal_bus_idx = idx /\ c.branch_id = b)
    IN  SelectSeq(conns, Keep)

\* the four containers and how the last call returned
Current ==
    [adj |-> adjacency_list, idx |-> bus_to_internal_idx,
     ids |-> internal_idx_to_bus_id, bem |-> branch_endpoints_map, result |-> result]

\* mutant: the containers are cleared before the sizes are compared
BuiltClearFirst(cur, bus_ids, branch_ids, branch_endpoints) ==
    IF Len(branch_ids) # Len(branch_endpoints)
    THEN [adj |-> <<>>, idx |-> [b \in Buses |-> 0], ids |-> <<>>,
          bem |-> [b \in BranchIds |-> NoBranch], result |-> "invalid_argument"]
    ELSE LET idx == BusIndex(bus_ids)
             r   == AddBranches([i \in 1..Len(bus_ids) |-> <<>>],
                                [b \in BranchIds |-> NoBranch],
                                idx, branch_ids, branch_endpoints, 1)
         IN  [adj |-> r.adj, idx |-> idx, ids |-> bus_ids, bem |-> r.bem,
              result |-> "void"]

\* what buildTopology leaves: it throws before it touches a container, or
\* clears them all and fills them from the vectors
Built(cur, bus_ids, branch_ids, branch_endpoints) ==
    IF Len(branch_ids) # Len(branch_endpoints)
    THEN [cur EXCEPT !.result = "invalid_argument"]
    ELSE LET idx == BusIndex(bus_ids)
             r   == AddBranches([i \in 1..Len(bus_ids) |-> <<>>],
                                [b \in BranchIds |-> NoBranch],
                                idx, branch_ids, branch_endpoints, 1)
         IN  [adj |-> r.adj, idx |-> idx, ids |-> bus_ids, bem |-> r.bem,
              result |-> "void"]

\* a call of buildTopology
BuildCall(bus_ids, branch_ids, branch_endpoints) ==
    LET n == Built(Current, bus_ids, branch_ids, branch_endpoints)
    IN  /\ adjacency_list' = n.adj
        /\ bus_to_internal_idx' = n.idx
        /\ internal_idx_to_bus_id' = n.ids
        /\ branch_endpoints_map' = n.bem
        /\ result' = n.result
        /\ UNCHANGED <<core, yields, typed, emis, asked, binding, registry, answer, systems>>

\* buildTopology(bus_ids, branch_ids, branch_endpoints) with the vectors of
\* the driver's network; a later call passes the same vectors again
BuildTopology(bus_ids, branch_ids, branch_endpoints) ==
    LET a == [bus_ids |-> bus_ids, branch_ids |-> branch_ids,
              branch_endpoints |-> branch_endpoints, given |-> TRUE]
    IN
    /\ args \in {NoArgs, a}
    /\ args' = a
    /\ BuildCall(bus_ids, branch_ids, branch_endpoints)

\* mutant: the entry of the branch stays in branch_endpoints_map
OpenBranchKeep(b) ==
    /\ IF branch_endpoints_map[b] = NoBranch
       THEN /\ result' = "false"
            /\ UNCHANGED <<adjacency_list, branch_endpoints_map>>
       ELSE LET u == GetBusInternalIndex(branch_endpoints_map[b][1])
                v == GetBusInternalIndex(branch_endpoints_map[b][2])
                a1 == [adjacency_list EXCEPT ![u] = EraseConns(@, v, b)]
            IN  /\ adjacency_list' = [a1 EXCEPT ![v] = EraseConns(@, u, b)]
                /\ UNCHANGED branch_endpoints_map
                /\ result' = "true"
    /\ UNCHANGED <<args, bus_to_internal_idx, internal_idx_to_bus_id>>
    /\ UNCHANGED <<core, yields, typed, emis, asked, binding, registry, answer, systems>>

\* what openBranch(branch_id_to_open) does to the containers, and how it
\* returns
OpenCall(b) ==
    /\ IF branch_endpoints_map[b] = NoBranch
       THEN /\ result' = "false"
            /\ UNCHANGED <<adjacency_list, branch_endpoints_map>>
       ELSE LET u == GetBusInternalIndex(branch_endpoints_map[b][1])
                v == GetBusInternalIndex(branch_endpoints_map[b][2])
            IN  IF u = 0 \/ v = 0
                THEN /\ result' = "false"
                     /\ UNCHANGED <<adjacency_list, branch_endpoints_map>>
                ELSE LET a1 == [adjacency_list EXCEPT ![u] = EraseConns(@, v, b)]
                     IN  /\ adjacency_list' = [a1 EXCEPT ![v] = EraseConns(@, u, b)]
                         /\ branch_endpoints_map' =
                                [branch_endpoints_map EXCEPT ![b] = NoBranch]
                         /\ result' = "true"
    /\ UNCHANGED <<args, bus_to_internal_idx, internal_idx_to_bus_id>>
    /\ UNCHANGED <<core, yields, typed, emis, asked, binding, registry, systems>>

\* openBranch(branch_id_to_open), for any branch id
OpenBranch(b) == OpenCall(b) /\ UNCHANGED answer

\* the vectors passed: bus ids in any order and with repetitions; branch
\* ids, which the code only hashes and compares for equality, up to renaming
\* (an id appears after every smaller id has)
BusIdLists == SeqsUpTo(BusIds, MaxBus)
BranchIdLists ==
    {s \in SeqsUpTo(BranchIds, MaxBranch) :
        \A i \in 1..Len(s) : \A k \in 1..(s[i] - 1) : \E j \in 1..(i - 1) : s[j] = k}
\* one endpoint pair per branch, or a vector of another length
EndpointLists(n) ==
    [1..n -> BusIds \X BusIds] \cup {ep \in {<<>>, <<<<1, 1>>>>} : Len(ep) # n}

\* the first call of buildTopology
FirstBuild ==
    /\ args = NoArgs
    /\ \E bus_ids \in BusIdLists, branch_ids \in BranchIdLists :
         \E branch_endpoints \in EndpointLists(Len(branch_ids)) :
            BuildTopology(bus_ids, branch_ids, branch_endpoints)

\* buildTopology called again
Rebuild ==
    /\ args.given
    /\ BuildTopology(args.bus_ids, args.branch_ids, args.branch_endpoints)

NextTopology ==
    \/ FirstBuild
    \/ Rebuild
    \/ \E b \in BranchIds : OpenBranch(b)

SpecTopology == Init /\ [][NextTopology]_vars

\* endpoint pairs with the lower bus id first: the two push_back calls and
\* the two erase calls of a branch treat its endpoints alike
Lines(ids) == {p \in ids \X ids : p[1] <= p[2]}

\* the first call of buildTopology, with vectors of equal size, bus ids
\* drawn from lists and endpoints from lines
BuildNetwork(lists, lines) ==
    /\ args = NoArgs
    /\ \E bus_ids \in lists, branch_ids \in BranchIdLists :
         \E branch_endpoints \in [1..Len(branch_ids) -> lines] :
            BuildTopology(bus_ids, branch_ids, branch_endpoints)

\* buildTopology called with vectors of different sizes, at any time
BuildMismatched ==
    /\ \E bus_ids \in {<<>>, args.bus_ids}, branch_ids \in {<<>>, <<1>>},
          branch_endpoints \in {<<>>, <<<<1, 1>>>>} :
            /\ Len(branch_ids) # Len(branch_endpoints)
            /\ BuildCall(bus_ids, branch_ids, branch_endpoints)
    /\ UNCHANGED args

NextRebuild ==
    \/ BuildNetwork(BusIdLists, Lines(BusIds))
    \/ Rebuild
    \/ BuildMismatched
    \/ \E b \in BranchIds : OpenBranch(b)

SpecRebuild == Init /\ [][NextRebuild]_vars

\* The read-only operations of PowerSystemTopology, on the containers as
\* they are. A vector indexed by slot is a sequence, 0 standing for the
\* initial value (0, -1 or false) of the code; a std::queue is a sequence.
Slots == 1..Len(adjacency_list)

\* mutant: only the first entry of the adjacency list of u is followed
VisitNeighboursFirst(conns, k, visited, q, mark) ==
    IF k > Len(conns) \/ k > 1 THEN [visited |-> visited, q |-> q]
    ELSE LET v == conns[k].internal_bus_idx
         IN  IF visited[v] = 0
             THEN [visited |-> [visited EXCEPT ![v] = mark], q |-> Append(q, v)]
             ELSE [visited |-> visited, q |-> q]

\* for (conn : adjacency_list[u_idx]) if (visited[v] == 0) { mark; push }
RECURSIVE VisitNeighbours(_, _, _, _, _)
VisitNeighbours(conns, k, visited, q, mark) ==
    IF k > Len(conns) THEN [visited |-> visited, q |-> q]
    ELSE LET v == conns[k].internal_bus_idx
         IN  IF visited[v] = 0
             THEN VisitNeighbours(conns, k + 1, [visited EXCEPT ![v] = mark],
                                  Append(q, v), mark)
             ELSE VisitNeighbours(conns, k + 1, visited, q, mark)

\* while (!q.empty()) of findElectricalIslands
RECURSIVE IslandBfs(_, _, _)
IslandBfs(q, visited, mark) ==
    IF q = <<>> THEN visited
    ELSE LET r == VisitNeighbours(adjacency_list[Head(q)], 1, visited, Tail(q), mark)
         IN  IslandBfs(r.q, r.visited, mark)

\* for (i = 0; i < getBusCount(); ++i) if (visited[i] == 0) ...
RECURSIVE IslandLoop(_, _, _)
IslandLoop(i, visited, count) ==
    IF i > Len(internal_idx_to_bus_id) THEN [visited |-> visited, count |-> count]
    ELSE IF visited[i] # 0 THEN IslandLoop(i + 1, visited, count)
    ELSE IslandLoop(i + 1,
                    IslandBfs(<<i>>, [visited EXCEPT ![i] = count + 1], count + 1),
                    count + 1)

\* for (i ...) result[internal_idx_to_bus_id[i]] = visited[i] - 1
RECURSIVE IslandMap(_, _, _)
IslandMap(i, visited, res) ==
    IF i > Len(internal_idx_to_bus_id) THEN res
    ELSE IslandMap(i + 1, visited,
                   [b \in DOMAIN res \cup {internal_idx_to_bus_id[i]} |->
                       IF b = internal_idx_to_bus_id[i] THEN visited[i] - 1 ELSE res[b]])

\* findElectricalIslands(island_count): the map returned and island_count
FindElectricalIslands ==
    IF adjacency_list = <<>>
    THEN [fn |-> "findElectricalIslands", map |-> <<>>, island_count |-> 0]
    ELSE LET r == IslandLoop(1, [i \in 1..Len(internal_idx_to_bus_id) |-> 0], 0)
         IN  [fn |-> "findElectricalIslands",
              map |-> IslandMap(1, r.visited, <<>>),
              island_count |-> r.count]

\* a read-only call, the one of the run: it is made once the driver has
\* built the topology and has finished opening branches
Ask(a) ==
    /\ args.given
    /\ answer = NoAnswer
    /\ answer' = a
    /\ UNCHANGED <<core, yields, typed, emis, asked, binding, registry, topology, systems>>

\* openBranch, before any read-only call, of a branch id that is in
\* branch_endpoints_map (with another id no container changes)
OpenPresent(b) ==
    /\ answer = NoAnswer
    /\ branch_endpoints_map[b] # NoBranch
    /\ OpenBranch(b)

\* the bus_ids vectors of the networks analysed: n <= MaxNode bus ids in
\* ascending order, in descending order, or ascending with the first id
\* again at the end
Ascending(n)  == [i \in 1..n |-> i]
Descending(n) == [i \in 1..n |-> n + 1 - i]
Repeating(n)  == [i \in 1..n |-> IF i = n THEN 1 ELSE i]
BusOrders ==
    UNION {{Ascending(n), Descending(n), Repeating(n)} : n \in 0..MaxNode}

NextIslands ==
    \/ BuildNetwork(BusOrders, Lines(Buses))
    \/ \E b \in BranchIds : OpenPresent(b)
    \/ Ask(FindElectricalIslands)

SpecIslands == Init /\ [][NextIslands]_vars

\* mutant: open_branches is not looked at
InOpenSetNever(open, b) == FALSE

\* open_set.count(conn.branch_id)
InOpenSet(open, b) == b \in open

\* the for loop of findPath over the entries of u from position k on
RECURSIVE PathNeighbours(_, _, _, _, _, _, _)
PathNeighbours(u, conns, k, visited, pred, q, open) ==
    IF k > Len(conns) THEN [visited |-> visited, pred |-> pred, q |-> q]
    ELSE LET v == conns[k].internal_bus_idx
         IN  IF InOpenSet(open, conns[k].branch_id) \/ visited[v]
             THEN PathNeighbours(u, conns, k + 1, visited, pred, q, open)
             ELSE PathNeighbours(u, conns, k + 1,
                                 [visited EXCEPT ![v] = TRUE],
                                 [pred EXCEPT ![v] = [first |-> u, second |-> conns[k].branch_id]],
                                 Append(q, v), open)

\* while (!q.empty()) of findPath: found, and the predecessor vector
RECURSIVE PathBfs(_, _, _, _, _)
PathBfs(q, visited, pred, end_idx, open) ==
    IF q = <<>> THEN [found |-> FALSE, pred |-> pred]
    ELSE IF Head(q) = end_idx THEN [found |-> TRUE, pred |-> pred]
    ELSE LET r == PathNeighbours(Head(q), adjacency_list[Head(q)], 1,
                                 visited, pred, Tail(q), open)
         IN  PathBfs(r.q, r.visited, r.pred, end_idx, open)

\* while (current_idx != -1): the buses and branches from the end backwards
RECURSIVE PathBack(_, _, _, _)
PathBack(cur, pred, buses, branches) ==
    IF cur = 0 THEN [buses |-> buses, branches |-> branches]
    ELSE PathBack(pred[cur].first, pred,
                  Append(buses, internal_idx_to_bus_id[cur]),
                  IF pred[cur].first # 0 THEN Append(branches, pred[cur].second)
                  ELSE branches)

\* std::reverse
Reverse(seq) == [i \in 1..Len(seq) |-> seq[Len(seq) + 1 - i]]

\* findPath(start_bus, end_bus, open_branches)
FindPath(start_bus, end_bus, open) ==
    LET start_idx == GetBusInternalIndex(start_bus)
        end_idx   == GetBusInternalIndex(end_bus)
        call == [fn |-> "findPath", s |-> start_bus, t |-> end_bus, open |-> open]
        none == call @@ [found |-> FALSE, buses |-> <<>>, branches |-> <<>>]
    IN  IF start_idx = 0 \/ end_idx = 0 THEN none
        ELSE IF start_idx = end_idx
        THEN call @@ [found |-> TRUE, buses |-> <<start_bus>>, branches |-> <<>>]
        ELSE LET n == Len(internal_idx_to_bus_id)
                 r == PathBfs(<<start_idx>>,
                              [i \in 1..n |-> i = start_idx],
                              [i \in 1..n |-> [first |-> 0, second |-> 0]],
                              end_idx, open)
             IN  IF ~r.found THEN none
                 ELSE LET w == PathBack(end_idx, r.pred, <<>>, <<>>)
                      IN  call @@ [found |-> TRUE, buses |-> Reverse(w.buses),
                                   branches |-> Reverse(w.branches)]

\* findPath is asked about networks of MaxNode slots, with every bus id
\* known or with one repeated and one unknown, and with open_branches empty
\* or naming one branch id
PathOrders == {Ascending(MaxNode), Repeating(MaxNode)}
OpenSets   == {{}} \cup {{b} : b \in BranchIds}

NextPath ==
    \/ BuildNetwork(PathOrders, Lines(Buses))
    \/ \E b \in BranchIds : OpenPresent(b)
    \/ \E start_bus, end_bus \in Buses, open \in OpenSets :
          Ask(FindPath(start_bus, end_bus, open))

SpecPath == Init /\ [][NextPath]_vars

\* std::min
MinOf(a, b) == IF a < b THEN a ELSE b

\* mutant: the entry back to the parent is treated like any other
IsParentNever(v, p) == FALSE

\* if (v == parent[u]) continue
IsParent(v, p) == v = p

\* the vectors of the two depth-first searches, nothing visited yet
DfsStart ==
    LET n == Len(internal_idx_to_bus_id)
    IN  [disc |-> [i \in 1..n |-> 0], low |-> [i \in 1..n |-> 0],
         parent |-> [i \in 1..n |-> 0], time |-> 0,
         critical_lines |-> <<>>, is_critical |-> [i \in 1..n |-> FALSE]]

\* findCriticalLinesUtil(u, ...): LinesLoop is its for loop from entry k on
RECURSIVE FindCriticalLinesUtil(_, _)
RECURSIVE LinesLoop(_, _, _)
LinesLoop(u, k, dfs) ==
    IF k > Len(adjacency_list[u]) THEN dfs
    ELSE LET conn == adjacency_list[u][k]
             v    == conn.internal_bus_idx
         IN  IF IsParent(v, dfs.parent[u]) THEN LinesLoop(u, k + 1, dfs)
             ELSE IF dfs.disc[v] # 0
             THEN LinesLoop(u, k + 1,
                            [dfs EXCEPT !.low[u] = MinOf(dfs.low[u], dfs.disc[v])])
             ELSE LET s1 == FindCriticalLinesUtil(v, [dfs EXCEPT !.parent[v] = u])
                      s2 == [s1 EXCEPT !.low[u] = MinOf(s1.low[u], s1.low[v])]
                  IN  LinesLoop(u, k + 1,
                                IF s2.low[v] > s2.disc[u]
                                THEN [s2 EXCEPT !.critical_lines = Append(@, conn.branch_id)]
                                ELSE s2)
FindCriticalLinesUtil(u, dfs) ==
    LinesLoop(u, 1, [dfs EXCEPT !.time = dfs.time + 1,
                               !.disc[u] = dfs.time + 1, !.low[u] = dfs.time + 1])

\* for (i ...) if (disc[i] == -1) findCriticalLinesUtil(i, ...)
RECURSIVE LinesRoots(_, _)
LinesRoots(i, dfs) ==
    IF i > Len(internal_idx_to_bus_id) THEN dfs
    ELSE LinesRoots(i + 1, IF dfs.disc[i] = 0 THEN FindCriticalLinesUtil(i, dfs) ELSE dfs)

\* findCriticalLines()
FindCriticalLines ==
    [fn |-> "findCriticalLines",
     lines |-> IF adjacency_list = <<>> THEN <<>>
               ELSE LinesRoots(1, DfsStart).critical_lines]

NextLines ==
    \/ BuildNetwork(BusOrders, Lines(Buses))
    \/ \E b \in BranchIds : OpenPresent(b)
    \/ Ask(FindCriticalLines)

SpecLines == Init /\ [][NextLines]_vars

\* mutant: a root of the search is critical as soon as it has one child
RootCriticalOne(p, children) == p = 0 /\ children > 0

\* if (parent[u] == -1 && children > 1)
RootCritical(p, children) == p = 0 /\ children > 1

\* if (parent[u] != -1 && low[v] >= disc[u])
InnerCritical(p, low_v, disc_u) == p # 0 /\ low_v >= disc_u

\* findCriticalBusesUtil(u, ...): BusesLoop is its for loop from entry k on,
\* children the local counter
RECURSIVE FindCriticalBusesUtil(_, _)
RECURSIVE BusesLoop(_, _, _, _)
BusesLoop(u, k, children, dfs) ==
    IF k > Len(adjacency_list[u]) THEN dfs
    ELSE LET conn == adjacency_list[u][k]
             v    == conn.internal_bus_idx
         IN  IF IsParent(v, dfs.parent[u]) THEN BusesLoop(u, k + 1, children, dfs)
             ELSE IF dfs.disc[v] # 0
             THEN BusesLoop(u, k + 1, children,
                            [dfs EXCEPT !.low[u] = MinOf(dfs.low[u], dfs.disc[v])])
             ELSE LET s1 == FindCriticalBusesUtil(v, [dfs EXCEPT !.parent[v] = u])
                      s2 == [s1 EXCEPT !.low[u] = MinOf(s1.low[u], s1.low[v])]
                      s3 == IF RootCritical(s2.parent[u], children + 1)
                            THEN [s2 EXCEPT !.is_critical[u] = TRUE] ELSE s2
                      s4 == IF InnerCritical(s3.parent[u], s3.low[v], s3.disc[u])
                            THEN [s3 EXCEPT !.is_critical[u] = TRUE] ELSE s3
                  IN  BusesLoop(u, k + 1, children + 1, s4)
FindCriticalBusesUtil(u, dfs) ==
    BusesLoop(u, 1, 0, [dfs EXCEPT !.time = dfs.time + 1,
                                  !.disc[u] = dfs.time + 1, !.low[u] = dfs.time + 1])

\* for (i ...) if (disc[i] == -1) findCriticalBusesUtil(i, ...)
RECURSIVE BusesRoots(_, _)
BusesRoots(i, dfs) ==
    IF i > Len(internal_idx_to_bus_id) THEN dfs
    ELSE BusesRoots(i + 1, IF dfs.disc[i] = 0 THEN FindCriticalBusesUtil(i, dfs) ELSE dfs)

\* for (i ...) if (is_critical[i]) result.push_back(internal_idx_to_bus_id[i])
RECURSIVE CriticalIds(_, _)
CriticalIds(i, is_critical) ==
    IF i > Len(internal_idx_to_bus_id) THEN <<>>
    ELSE (IF is_critical[i] THEN <<internal_idx_to_bus_id[i]>> ELSE <<>>)
         \o CriticalIds(i + 1, is_critical)

\* findCriticalBuses()
FindCriticalBuses ==
    LET flags == IF adjacency_list = <<>> THEN <<>>
                 ELSE BusesRoots(1, DfsStart).is_critical
    IN  [fn |-> "findCriticalBuses", is_critical |-> flags,
         buses |-> CriticalIds(1, flags)]

NextBuses ==
    \/ BuildNetwork(BusOrders, Lines(Buses))
    \/ \E b \in BranchIds : OpenPresent(b)
    \/ Ask(FindCriticalBuses)

SpecBuses == Init /\ [][NextBuses]_vars

\* for (i ...) { buses_in_island[island_idx]++;
\*               degree_sum_in_island[island_idx] += adjacency_list[i].size(); }
\* with island_idx = bus_to_island_map[internal_idx_to_bus_id[i]]
RECURSIVE RadialCount(_, _, _, _)
RadialCount(i, bus_to_island_map, buses_in_island, degree_sum_in_island) ==
    IF i > Len(internal_idx_to_bus_id)
    THEN [buses_in_island |-> buses_in_island,
          degree_sum_in_island |-> degree_sum_in_island]
    ELSE LET island_idx == bus_to_island_map[internal_idx_to_bus_id[i]]
         IN  RadialCount(i + 1, bus_to_island_map,
                 [buses_in_island EXCEPT ![island_idx] = @ + 1],
                 [degree_sum_in_island EXCEPT
                     ![island_idx] = @ + Len(adjacency_list[i])])

\* e_count = degree_sum / 2; result[i] = (e_count == v_count - 1)
IsRadial(v_count, degree_sum) == (degree_sum \div 2) = v_count - 1

\* checkRadialIslands(): the map returned, an entry for every island index
\* with v_count > 0
CheckRadialIslands ==
    LET isl == FindElectricalIslands
        idx == 0..(isl.island_count - 1)
        cnt == RadialCount(1, isl.map, [k \in idx |-> 0], [k \in idx |-> 0])
    IN  [fn |-> "checkRadialIslands",
         radial |-> IF adjacency_list = <<>> \/ isl.island_count = 0
                    THEN [k \in {} |-> FALSE]
                    ELSE [k \in {j \in idx : cnt.buses_in_island[j] > 0} |->
                            IsRadial(cnt.buses_in_island[k],
                                     cnt.degree_sum_in_island[k])]]

NextRadial ==
    \/ BuildNetwork(BusOrders, Lines(Buses))
    \/ \E b \in BranchIds : OpenPresent(b)
    \/ Ask(CheckRadialIslands)

SpecRadial == Init /\ [][NextRadial]_vars

\* step 1 of tracePowerFlow, for (source_id : source_buses): the listed
\* sources that are in the topology are queued once each
RECURSIVE TraceSources(_, _, _, _)
TraceSources(source_buses, k, q, visited) ==
    IF k > Len(source_buses) THEN [q |-> q, visited |-> visited]
    ELSE LET idx == GetBusInternalIndex(source_buses[k])
         IN  IF idx # 0 /\ ~visited[idx]
             THEN TraceSources(source_buses, k + 1, Append(q, idx),
                               [visited EXCEPT ![idx] = TRUE])
             ELSE TraceSources(source_buses, k + 1, q, visited)

\* for (conn : adjacency_list[u]) if (!visited[v]) { mark; parent[v] = u; push }
RECURSIVE TraceNeighbours(_, _, _, _)
TraceNeighbours(u, k, q, bfs) ==
    IF k > Len(adjacency_list[u]) THEN [bfs EXCEPT !.q = q]
    ELSE LET v == adjacency_list[u][k].internal_bus_idx
         IN  IF ~bfs.visited[v]
             THEN TraceNeighbours(u, k + 1, Append(q, v),
                                  [bfs EXCEPT !.visited[v] = TRUE, !.parent[v] = u])
             ELSE TraceNeighbours(u, k + 1, q, bfs)

\* while (!q.empty()) of step 1: the parent vector, 0 for -1
RECURSIVE TraceBfs(_)
TraceBfs(bfs) ==
    IF bfs.q = <<>> THEN bfs.parent
    ELSE TraceBfs(TraceNeighbours(Head(bfs.q), 1, Tail(bfs.q), bfs))

\* the parent vector of tracePowerFlow(_, source_buses, _)
TraceParents(source_buses) ==
    LET n == Len(internal_idx_to_bus_id)
        r == TraceSources(source_buses, 1, <<>>, [i \in 1..n |-> FALSE])
    IN  TraceBfs([q |-> r.q, visited |-> r.visited, parent |-> [i \in 1..n |-> 0]])

\* mutant: every neighbour counts as downstream
IsChildAny(pv, u) == TRUE

\* parent[v] == u
IsChild(pv, u) == pv = u

\* phase 1 of the downstream trace: for (conn : adjacency_list[u])
\*   if (parent[v] == u && v not in downstream_bus_indices) { insert; push }
RECURSIVE DownNeighbours(_, _, _, _, _)
DownNeighbours(u, k, q, down, parent) ==
    IF k > Len(adjacency_list[u]) THEN [q |-> q, down |-> down]
    ELSE LET v == adjacency_list[u][k].internal_bus_idx
         IN  IF IsChild(parent[v], u) /\ v \notin down
             THEN DownNeighbours(u, k + 1, Append(q, v), down \cup {v}, parent)
             ELSE DownNeighbours(u, k + 1, q, down, parent)
RECURSIVE DownBfs(_, _, _)
DownBfs(q, down, parent) ==
    IF q = <<>> THEN down
    ELSE LET r == DownNeighbours(Head(q), 1, Tail(q), down, parent)
         IN  DownBfs(r.q, r.down, parent)

\* phase 2: the branch ids of the entries that lead from a slot of down to
\* a slot of down
DownBranches(down) ==
    UNION {{adjacency_list[u][k].branch_id :
               k \in {j \in 1..Len(adjacency_list[u]) :
                         adjacency_list[u][j].internal_bus_idx \in down}} :
           u \in down}

\* while (current_idx != -1 && parent[current_idx] != -1)
HasParent(p) == p # 0

\* the upstream trace: the bus ids and the branch ids met while following
\* parent from start_idx; the branch to the parent is the first entry of
\* the adjacency list that leads there
RECURSIVE UpChain(_, _, _, _)
UpChain(current_idx, parent, buses, branches) ==
    IF ~HasParent(parent[current_idx]) THEN [buses |-> buses, branches |-> branches]
    ELSE LET parent_idx == parent[current_idx]
             conns      == adjacency_list[current_idx]
             hits       == {k \in 1..Len(conns) : conns[k].internal_bus_idx = parent_idx}
             first      == CHOOSE k \in hits : \A j \in hits : k <= j
         IN  UpChain(parent_idx, parent,
                     buses \cup {internal_idx_to_bus_id[parent_idx]},
                     IF hits = {} THEN branches
                     ELSE branches \cup {conns[first].branch_id})

\* std::sort of a vector of ids
RECURSIVE InsertSorted(_, _)
InsertSorted(seq, x) ==
    IF seq = <<>> THEN <<x>>
    ELSE IF x <= Head(seq) THEN <<x>> \o seq
    ELSE <<Head(seq)>> \o InsertSorted(Tail(seq), x)
RECURSIVE SortIds(_)
SortIds(seq) ==
    IF seq = <<>> THEN <<>> ELSE InsertSorted(SortIds(Tail(seq)), Head(seq))

\* the elements of an unordered_set copied to a vector; the order is the
\* container's own, and std::sort follows
RECURSIVE SetToVector(_)
SetToVector(S) ==
    IF S = {} THEN <<>>
    ELSE LET x == CHOOSE y \in S : \A z \in S : z <= y
         IN  <<x>> \o SetToVector(S \ {x})
\* for (bus_idx : downstream_bus_indices) push_back(internal_idx_to_bus_id[bus_idx])
IdVector(seq) == [k \in 1..Len(seq) |-> internal_idx_to_bus_id[seq[k]]]

\* tracePowerFlow(start_bus, source_buses, trace_downstream): the Path
\* returned, with the parent vector of step 1 kept beside it
TracePowerFlow(start_bus, source_buses, trace_downstream) ==
    LET call == [fn |-> "tracePowerFlow", start |-> start_bus,
                 sources |-> source_buses, downstream |-> trace_downstream]
        empty == [parent |-> <<>>, buses |-> <<>>, branches |-> <<>>]
    IN  IF adjacency_list = <<>> THEN call @@ empty
        ELSE LET parent    == TraceParents(source_buses)
                 start_idx == GetBusInternalIndex(start_bus)
             IN  IF start_idx = 0 THEN call @@ [empty EXCEPT !.parent = parent]
                 ELSE IF trace_downstream
                 THEN LET down == DownBfs(<<start_idx>>, {start_idx}, parent)
                      IN  call @@
                          [parent   |-> parent,
                           buses    |-> SortIds(IdVector(SetToVector(down))),
                           branches |-> SortIds(SetToVector(DownBranches(down)))]
                 ELSE LET up == UpChain(start_idx, parent,
                                        {internal_idx_to_bus_id[start_idx]}, {})
                      IN  call @@
                          [parent   |-> parent,
                           buses    |-> SortIds(SetToVector(up.buses)),
                           branches |-> SortIds(SetToVector(up.branches))]

\* the source_buses vectors of the traces: none, one bus, two buses with the
\* lower id first, one bus listed twice
SourceLists ==
    {<<>>, <<1, 1>>} \cup {<<g>> : g \in Buses}
        \cup {<<p[1], p[2]>> : p \in {r \in Buses \X Buses : r[1] < r[2]}}

NextDownstream ==
    \/ BuildNetwork(PathOrders, Lines(Buses))
    \/ \E b \in BranchIds : OpenPresent(b)
    \/ \E start_bus \in Buses, source_buses \in SourceLists :
          Ask(TracePowerFlow(start_bus, source_buses, TRUE))

SpecDownstream == Init /\ [][NextDownstream]_vars

NextUpstream ==
    \/ BuildNetwork(PathOrders, Lines(Buses))
    \/ \E b \in BranchIds : OpenPresent(b)
    \/ \E start_bus \in Buses, source_buses \in SourceLists :
          Ask(TracePowerFlow(start_bus, source_buses, FALSE))

SpecUpstream == Init /\ [][NextUpstream]_vars

\* a network is built, built again from the same vectors, and any branch
\* id is passed to openBranch at any time
NextOpen ==
    \/ BuildNetwork(BusOrders, Lines(Buses))
    \/ Rebuild
    \/ \E b \in BranchIds : OpenBranch(b)

SpecOpen == Init /\ [][NextOpen]_vars

\* the driver calls findElectricalIslands and then openBranch(b), as the
\* last call of the run: what the first call returned and the adjacency
\* lists the second one found are kept
OpenAfterIslands(b) ==
    /\ args.given
    /\ answer = NoAnswer
    /\ answer' = [fn |-> "openBranch", id |-> b,
                  ends |-> branch_endpoints_map[b],
                  adjacency_before |-> adjacency_list,
                  before |-> FindElectricalIslands]
    /\ OpenCall(b)

NextSplit ==
    \/ BuildNetwork(BusOrders, Lines(Buses))
    \/ \E b \in BranchIds : OpenPresent(b)
    \/ \E b \in BranchIds : OpenAfterIslands(b)

SpecSplit == Init /\ [][NextSplit]_vars

\* std::find(path.begin(), path.end(), v): the position of v in path, 0 for
\* path.end()
FindInPath(path, v) ==
    LET I == {i \in 1..Len(path) : path[i] = v}
    IN  IF I = {} THEN 0 ELSE CHOOSE i \in I : \A j \in I : i <= j

\* loop.assign(it, path.end()); std::sort(loop); push_back unless
\* loops_internal has it already
NoteLoop(fl, v) ==
    LET it   == FindInPath(fl.path, v)
        loop == SortIds(SubSeq(fl.path, it, Len(fl.path)))
    IN  IF it = 0 \/ \E i \in 1..Len(fl.loops_internal) : fl.loops_internal[i] = loop
        THEN fl
        ELSE [fl EXCEPT !.loops_internal = Append(@, loop)]

\* findAllLoopsUtil(u, p, ...): LoopsLoop is its for loop from entry k on;
\* color is 0, 1 while u is on the path, 2 afterwards
RECURSIVE FindAllLoopsUtil(_, _, _)
RECURSIVE LoopsLoop(_, _, _, _)
LoopsLoop(u, p, k, fl) ==
    IF k > Len(adjacency_list[u]) THEN fl
    ELSE LET v == adjacency_list[u][k].internal_bus_idx
         IN  IF IsParent(v, p) THEN LoopsLoop(u, p, k + 1, fl)
             ELSE IF fl.color[v] = 1 THEN LoopsLoop(u, p, k + 1, NoteLoop(fl, v))
             ELSE IF fl.color[v] = 0
             THEN LoopsLoop(u, p, k + 1, FindAllLoopsUtil(v, u, fl))
             ELSE LoopsLoop(u, p, k + 1, fl)
FindAllLoopsUtil(u, p, fl) ==
    LET r == LoopsLoop(u, p, 1, [fl EXCEPT !.color[u] = 1, !.path = Append(@, u)])
    IN  [r EXCEPT !.path = SubSeq(@, 1, Len(@) - 1), !.color[u] = 2]

\* for (i ...) if (color[i] == 0) findAllLoopsUtil(i, -1, ...)
RECURSIVE LoopsRoots(_, _)
LoopsRoots(i, fl) ==
    IF i > Len(internal_idx_to_bus_id) THEN fl
    ELSE LoopsRoots(i + 1, IF fl.color[i] = 0 THEN FindAllLoopsUtil(i, 0, fl) ELSE fl)

\* findAllLoops(): every loop of loops_internal as a vector of bus ids
FindAllLoops ==
    IF adjacency_list = <<>> THEN <<>>
    ELSE LET fl == LoopsRoots(1, [color |-> [i \in 1..Len(internal_idx_to_bus_id) |-> 0],
                                  path |-> <<>>, loops_internal |-> <<>>])
         IN  [i \in 1..Len(fl.loops_internal) |-> IdVector(fl.loops_internal[i])]

\* the driver calls findAllLoops, checkRadialIslands and
\* findElectricalIslands on one topology
LoopsAndRadial ==
    [fn |-> "findAllLoops", loops |-> FindAllLoops,
     radial |-> CheckRadialIslands.radial, islands |-> FindElectricalIslands]

NextLoops ==
    \/ BuildNetwork(BusOrders, Lines(Buses))
    \/ \E b \in BranchIds : OpenPresent(b)
    \/ Ask(LoopsAndRadial)

SpecLoops == Init /\ [][NextLoops]_vars

TypeOK ==
    /\ now \in Times
    /\ \A i \in 1..Len(timers) : timers[i].at \in Times /\ timers[i].t \in Tasks
    /\ \A i \in 1..Len(ready) : ready[i] \in Tasks
    /\ st \in [Tasks -> {"none", "new", "run", "delay", "event", "done", "dead"}]
    /\ ops \in 0..MaxOps

\* ------------------------------------------------- the logic protection system
\* Entity ids, as Registry::create hands them out in
\* initialize_scenario_entities (the first id is 1; Entity {} is 0).
breaker_C_entity == 1
line_C_entity == 2
breaker_B_entity == 3
line_B_entity == 4
breaker_A_entity == 5
line_A_entity == 6
prot_main_C_entity == 7
prot_main_B_entity == 8
prot_backup_B_entity == 9
prot_main_A_entity == 10
prot_backup_A_entity == 11

\* the delays of the scenario (ms)
MainTripDelay == 50
BackupBTripDelay == 2000
BackupATripDelay == 3000
TrippedHold == 10
BreakerOperatingTime == 20
initial_delay_ms == 1000
wait_duration_for_sequence == 4000
simulation_duration == 5000
\* the iteration limit of the two walks along downstream_line_entity
SafetyLimit == 10

LogicLines == {line_A_entity, line_B_entity, line_C_entity}
LogicBreakers == {breaker_A_entity, breaker_B_entity, breaker_C_entity}
Protections == {prot_main_C_entity, prot_main_B_entity, prot_backup_B_entity,
                prot_main_A_entity, prot_backup_A_entity}
\* the coroutine of the scenario; the other tasks are named by their entity
ScenarioTask == 0
LogicTasks == LogicBreakers \cup Protections \cup {ScenarioTask}

\* the LineIdentityComponents as initialize_scenario_entities leaves them
\* (downstream_line_entity 0: std::nullopt)
LineIdentityComponent(l) ==
    CASE l = line_C_entity ->
            [associated_breaker_entity |-> breaker_C_entity, downstream_line_entity |-> 0]
      [] l = line_B_entity ->
            [associated_breaker_entity |-> breaker_B_entity,
             downstream_line_entity |-> line_C_entity]
      [] l = line_A_entity ->
            [associated_breaker_entity |-> breaker_A_entity,
             downstream_line_entity |-> line_B_entity]

\* the constant fields of the ProtectionDeviceComponents
ProtectionDeviceComponent(p) ==
    CASE p = prot_main_C_entity ->
            [type |-> "MAIN", protected_line_entity |-> line_C_entity,
             commanded_breaker_entity |-> breaker_C_entity, trip_delay |-> MainTripDelay]
      [] p = prot_main_B_entity ->
            [type |-> "MAIN", protected_line_entity |-> line_B_entity,
             commanded_breaker_entity |-> breaker_B_entity, trip_delay |-> MainTripDelay]
      [] p = prot_backup_B_entity ->
            [type |-> "BACKUP", protected_line_entity |-> line_B_entity,
             commanded_breaker_entity |-> breaker_B_entity, trip_delay |-> BackupBTripDelay]
      [] p = prot_main_A_entity ->
            [type |-> "MAIN", protected_line_entity |-> line_A_entity,
             commanded_breaker_entity |-> breaker_A_entity, trip_delay |-> MainTripDelay]
      [] p = prot_backup_A_entity ->
            [type |-> "BACKUP", protected_line_entity |-> line_A_entity,
             commanded_breaker_entity |-> breaker_A_entity, trip_delay |-> BackupATripDelay]

\* is_line_downstream_or_same: the loop from path_tracer_entity
RECURSIVE DownstreamWalk(_, _, _)
DownstreamWalk(path_tracer_entity, target_line_entity, safety_count) ==
    IF safety_count >= SafetyLimit THEN FALSE
    ELSE IF path_tracer_entity = target_line_entity THEN TRUE
    ELSE IF path_tracer_entity \notin LogicLines THEN FALSE
    ELSE IF LineIdentityComponent(path_tracer_entity).downstream_line_entity = 0 THEN FALSE
    ELSE DownstreamWalk(LineIdentityComponent(path_tracer_entity).downstream_line_entity,
                        target_line_entity, safety_count + 1)

is_line_downstream_or_same(current_line_entity, target_line_entity) ==
    IF current_line_entity \notin LogicLines THEN FALSE
    ELSE DownstreamWalk(current_line_entity, target_line_entity, 0)

\* mutant: the state of the breakers is not looked at
PathAlwaysEnergized(is_open, current_eval_line, fault_on_line_entity, safety_count) == TRUE

\* is_fault_path_energized: the loop from current_eval_line and the check of
\* the faulted line's own breaker after it
RECURSIVE EnergizedWalk(_, _, _, _)
EnergizedWalk(is_open, current_eval_line, fault_on_line_entity, safety_count) ==
    IF current_eval_line # fault_on_line_entity /\ safety_count < SafetyLimit
    THEN IF current_eval_line \notin LogicLines THEN TRUE
         ELSE IF is_open[LineIdentityComponent(current_eval_line).associated_breaker_entity]
         THEN FALSE
         ELSE IF LineIdentityComponent(current_eval_line).downstream_line_entity = 0
         THEN TRUE
         ELSE EnergizedWalk(is_open,
                            LineIdentityComponent(current_eval_line).downstream_line_entity,
                            fault_on_line_entity, safety_count + 1)
    ELSE IF current_eval_line = fault_on_line_entity
    THEN ~(fault_on_line_entity \in LogicLines
           /\ is_open[LineIdentityComponent(fault_on_line_entity).associated_breaker_entity])
    ELSE TRUE

is_fault_path_energized(is_open, perspective_line_entity, fault_on_line_entity) ==
    EnergizedWalk(is_open, perspective_line_entity, fault_on_line_entity, 0)

\* mutant: a backup protection picks up whatever line is faulted
RelevantAlways(p, faulted_line_entity, is_open) == TRUE

\* protection_device_logic_task: is_relevant_fault
IsRelevantFault(p, faulted_line_entity, is_open) ==
    LET c == ProtectionDeviceComponent(p)
    IN  IF c.type = "MAIN" THEN faulted_line_entity = c.protected_line_entity
        ELSE /\ is_line_downstream_or_same(c.protected_line_entity, faulted_line_entity)
             /\ is_fault_path_energized(is_open, c.protected_line_entity, faulted_line_entity)

\* frames of the call stack of the scheduler's thread
LogicDriver == [kind |-> "driver", h |-> 0, todo |-> <<>>, data |-> 0]
LogicBody(h, data) == [kind |-> "task", h |-> h, todo |-> <<>>, data |-> data]
\* trigger_event: handlers_to_call and the payload
LogicDispatch(todo, data) == [kind |-> "dispatch", h |-> 0, todo |-> todo, data |-> data]

LogicTop == logic.stack[Len(logic.stack)]
LogicPop == SubSeq(logic.stack, 1, Len(logic.stack) - 1)
\* the body of task h executes, resumed at the co_await named by at
Executing(h, at) ==
    /\ logic.built
    /\ LogicTop.kind = "task" /\ LogicTop.h = h
    /\ logic.pc[h] = at

OnlyLogic ==
    UNCHANGED <<core, yields, typed, emis, asked, binding, registry, topology, answer,
                prot, threads>>

\* the scenarios: is_stuck_on_trip_cmd of the three breakers, and the faults
\* the scenario task injects, each after a delay
StuckSets == SUBSET LogicBreakers
FaultDelays == {MainTripDelay, initial_delay_ms}
Injections == [delay : FaultDelays, line : LogicLines]
FaultPlans == UNION {[1..n -> Injections] : n \in 1..MaxFaults}
\* the scenario of simulate_permanent_fault_with_breaker_failure_scenario
BundledStuck == {breaker_C_entity}
BundledPlan == <<[delay |-> initial_delay_ms, line |-> line_C_entity]>>

\* initialize_scenario_entities: the entities, then the three breaker tasks and
\* the five protection tasks, each run up to its first co_await
InitializeScenarioEntities(stuck) ==
    /\ ~logic.built
    /\ logic' =
         [built |-> TRUE, now |-> 0, ready |-> <<>>, timed_tasks |-> <<>>,
          command_handlers |-> <<breaker_A_entity, breaker_B_entity, breaker_C_entity>>,
          fault_handlers |-> <<prot_main_A_entity, prot_backup_A_entity, prot_main_B_entity,
                               prot_backup_B_entity, prot_main_C_entity>>,
          stack |-> <<LogicDriver>>,
          pc |-> [t \in LogicTasks |->
                     IF t \in LogicBreakers THEN "command"
                     ELSE IF t \in Protections THEN "fault" ELSE "none"],
          current_state |-> [p \in Protections |-> "IDLE"],
          fault_currently_seen_on_line |-> [p \in Protections |-> 0],
          is_open |-> [b \in LogicBreakers |-> FALSE],
          is_stuck_on_trip_cmd |-> [b \in LogicBreakers |-> b \in stuck],
          plan |-> <<>>, injected |-> 0, run |-> "none",
          commands |-> <<>>,
          picked_up_at |-> [p \in Protections |-> 0]]
    /\ OnlyLogic

\* the scenario task is started and detached: it runs up to its first delay
StartScenario(plan) ==
    /\ logic.built /\ logic.pc[ScenarioTask] = "none" /\ logic.run = "none"
    /\ logic' = [logic EXCEPT
                    !.plan = plan,
                    !.timed_tasks = InsertTimer(@, logic.now + plan[1].delay, ScenarioTask),
                    !.pc[ScenarioTask] = "delay"]
    /\ OnlyLogic

\* main_protection: scheduler_instance.run_until(end_time)
LogicRunUntil ==
    /\ logic.built /\ logic.pc[ScenarioTask] # "none" /\ logic.run = "none"
    /\ logic' = [logic EXCEPT !.run = "running"]
    /\ OnlyLogic

LogicInLoop ==
    /\ logic.built /\ logic.run = "running" /\ LogicTop.kind = "driver"

\* run_until: a ready task is resumed
LogicResume ==
    /\ LogicInLoop
    /\ logic.now < simulation_duration
    /\ logic.ready # <<>>
    /\ logic' = [logic EXCEPT !.ready = Tail(@),
                              !.stack = Append(@, LogicBody(Head(logic.ready), 0))]
    /\ OnlyLogic

\* the tasks whose deadline has come, in the order of timed_tasks_
LogicDue(tm, t) == [k \in 1..TimerSlot(tm, t) |-> tm[k].t]

\* run_until: no task is ready; the clock moves to the next deadline and the
\* tasks due become ready, or the run ends at end_time
LogicAdvance ==
    /\ LogicInLoop
    /\ logic.now < simulation_duration
    /\ logic.ready = <<>> /\ logic.timed_tasks # <<>>
    /\ LET next_event_time == logic.timed_tasks[1].at
       IN  IF next_event_time >= simulation_duration
           THEN logic' = [logic EXCEPT !.now = simulation_duration, !.run = "returned"]
           ELSE logic' = [logic EXCEPT
                    !.now = next_event_time,
                    !.ready = LogicDue(logic.timed_tasks, next_event_time),
                    !.timed_tasks = SubSeq(@, TimerSlot(@, next_event_time) + 1, Len(@))]
    /\ OnlyLogic

\* run_until: nothing is left to run before end_time
LogicIdle ==
    /\ LogicInLoop
    /\ logic.now < simulation_duration
    /\ logic.ready = <<>> /\ logic.timed_tasks = <<>>
    /\ logic' = [logic EXCEPT !.now = simulation_duration, !.run = "returned"]
    /\ OnlyLogic

\* trigger_event: the next handler of handlers_to_call resumes its coroutine,
\* and the call returns after the last one
LogicDeliver ==
    /\ logic.built /\ LogicTop.kind = "dispatch"
    /\ IF LogicTop.todo = <<>>
       THEN logic' = [logic EXCEPT !.stack = LogicPop]
       ELSE logic' = [logic EXCEPT !.stack =
                Append(Append(LogicPop, LogicDispatch(Tail(LogicTop.todo), LogicTop.data)),
                       LogicBody(Head(LogicTop.todo), LogicTop.data))]
    /\ OnlyLogic

\* mutant: the fault seen is kept when the device returns to IDLE
KeepFault(s, fault_seen) == fault_seen

\* protection_device_logic_task: fault_currently_seen_on_line after the
\* IDLE / RESETTING branch has run up to wait_for_event (0: std::nullopt)
ClearFault(s, fault_seen) == IF s = "RESETTING" THEN 0 ELSE fault_seen

\* protection_device_logic_task: one pass of while (true), up to its co_await
ProtectionLoop(p) ==
    /\ Executing(p, "loop")
    /\ LET s == logic.current_state[p]
       IN  CASE s \in {"IDLE", "RESETTING"} ->
                  logic' = [logic EXCEPT
                      !.current_state[p] = "IDLE",
                      !.fault_currently_seen_on_line[p] = ClearFault(s, @),
                      !.fault_handlers = Append(@, p),
                      !.pc[p] = "fault",
                      !.stack = LogicPop]
             [] s = "PICKED_UP" ->
                  logic' = [logic EXCEPT
                      !.current_state[p] = "TRIPPING_TIMER_RUNNING",
                      !.timed_tasks = InsertTimer(@,
                          logic.now + ProtectionDeviceComponent(p).trip_delay, p),
                      !.pc[p] = "timer",
                      !.stack = LogicPop]
             [] s = "TRIPPED" ->
                  logic' = [logic EXCEPT
                      !.current_state[p] = "RESETTING",
                      !.timed_tasks = InsertTimer(@, logic.now + TrippedHold, p),
                      !.pc[p] = "hold",
                      !.stack = LogicPop]
    /\ OnlyLogic

\* protection_device_logic_task resumed with a LogicFaultInfo
ProtectionFault(p) ==
    /\ Executing(p, "fault")
    /\ LET f == LogicTop.data
       IN  IF IsRelevantFault(p, f, logic.is_open)
           THEN logic' = [logic EXCEPT
                    !.fault_currently_seen_on_line[p] = f,
                    !.current_state[p] = "PICKED_UP",
                    !.picked_up_at[p] = logic.now,
                    !.pc[p] = "loop"]
           ELSE logic' = [logic EXCEPT
                    !.fault_currently_seen_on_line[p] = 0,
                    !.pc[p] = "loop"]
    /\ OnlyLogic

\* protection_device_logic_task resumed when its trip_delay has passed
ProtectionTimer(p) ==
    /\ Executing(p, "timer")
    /\ LET c == ProtectionDeviceComponent(p)
           f == logic.fault_currently_seen_on_line[p]
       IN  IF f = 0
           THEN logic' = [logic EXCEPT !.current_state[p] = "RESETTING", !.pc[p] = "loop"]
           ELSE IF is_fault_path_energized(logic.is_open, c.protected_line_entity, f)
           THEN logic' = [logic EXCEPT
                    !.command_handlers = <<>>,
                    !.stack = Append(@, LogicDispatch(logic.command_handlers,
                                                      c.commanded_breaker_entity)),
                    !.commands = Append(@,
                        [by |-> p, breaker_to_trip_entity |-> c.commanded_breaker_entity,
                         at |-> logic.now, fault |-> f,
                         picked_up_at |-> logic.picked_up_at[p],
                         open |-> {b \in LogicBreakers : logic.is_open[b]}]),
                    !.pc[p] = "commanded"]
           ELSE logic' = [logic EXCEPT !.current_state[p] = "RESETTING", !.pc[p] = "loop"]
    /\ OnlyLogic

\* protection_device_logic_task: trigger_event has returned
ProtectionTripped(p) ==
    /\ Executing(p, "commanded")
    /\ logic' = [logic EXCEPT !.current_state[p] = "TRIPPED", !.pc[p] = "loop"]
    /\ OnlyLogic

\* protection_device_logic_task resumed after the delay of the TRIPPED branch
ProtectionHeld(p) ==
    /\ Executing(p, "hold")
    /\ logic' = [logic EXCEPT !.pc[p] = "loop"]
    /\ OnlyLogic

\* breaker_logic_task: the top of while (true), up to wait_for_event
BreakerLoop(b) ==
    /\ Executing(b, "loop")
    /\ logic' = [logic EXCEPT !.command_handlers = Append(@, b),
                              !.pc[b] = "command",
                              !.stack = LogicPop]
    /\ OnlyLogic

\* mutant: a breaker operates on a command for any breaker
ForAnyBreaker(cmd, breaker_entity) == TRUE

\* breaker_logic_task: cmd.breaker_to_trip_entity == breaker_entity
ForThisBreaker(cmd, breaker_entity) == cmd = breaker_entity

\* breaker_logic_task resumed with a LogicBreakerCommand
BreakerCommand(b) ==
    /\ Executing(b, "command")
    /\ IF /\ ForThisBreaker(LogicTop.data, b)
          /\ ~logic.is_open[b]
          /\ ~logic.is_stuck_on_trip_cmd[b]
       THEN logic' = [logic EXCEPT
                !.timed_tasks = InsertTimer(@, logic.now + BreakerOperatingTime, b),
                !.pc[b] = "operating",
                !.stack = LogicPop]
       ELSE logic' = [logic EXCEPT !.pc[b] = "loop"]
    /\ OnlyLogic

\* breaker_logic_task resumed after its operating time: the breaker is open
\* (nobody waits for LOGIC_BREAKER_STATUS_CHANGED_EVENT)
BreakerOpens(b) ==
    /\ Executing(b, "operating")
    /\ logic' = [logic EXCEPT !.is_open[b] = TRUE, !.pc[b] = "loop"]
    /\ OnlyLogic

\* the scenario task resumed after a delay: it triggers LOGIC_FAULT_EVENT
ScenarioFault ==
    /\ Executing(ScenarioTask, "delay")
    /\ logic' = [logic EXCEPT
            !.injected = @ + 1,
            !.fault_handlers = <<>>,
            !.stack = Append(@, LogicDispatch(logic.fault_handlers,
                                              logic.plan[logic.injected + 1].line)),
            !.pc[ScenarioTask] = "injected"]
    /\ OnlyLogic

\* the scenario task after trigger_event: the delay before the next fault, or
\* wait_duration_for_sequence after the last one
ScenarioDelay ==
    /\ Executing(ScenarioTask, "injected")
    /\ IF logic.injected < Len(logic.plan)
       THEN logic' = [logic EXCEPT
                !.timed_tasks = InsertTimer(@,
                    logic.now + logic.plan[logic.injected + 1].delay, ScenarioTask),
                !.pc[ScenarioTask] = "delay",
                !.stack = LogicPop]
       ELSE logic' = [logic EXCEPT
                !.timed_tasks = InsertTimer(@, logic.now + wait_duration_for_sequence,
                                            ScenarioTask),
                !.pc[ScenarioTask] = "final",
                !.stack = LogicPop]
    /\ OnlyLogic

\* the scenario task logs the final states and ends
ScenarioEnds ==
    /\ Executing(ScenarioTask, "final")
    /\ logic' = [logic EXCEPT !.pc[ScenarioTask] = "done", !.stack = LogicPop]
    /\ OnlyLogic

NextLogic ==
    \/ \E stuck \in StuckSets : InitializeScenarioEntities(stuck)
    \/ \E plan \in FaultPlans : StartScenario(plan)
    \/ LogicRunUntil
    \/ LogicResume
    \/ LogicAdvance
    \/ LogicIdle
    \/ LogicDeliver
    \/ \E p \in Protections :
          \/ ProtectionLoop(p)
          \/ ProtectionFault(p)
          \/ ProtectionTimer(p)
          \/ ProtectionTripped(p)
          \/ ProtectionHeld(p)
    \/ \E b \in LogicBreakers :
          \/ BreakerLoop(b)
          \/ BreakerCommand(b)
          \/ BreakerOpens(b)
    \/ ScenarioFault
    \/ ScenarioDelay
    \/ ScenarioEnds

SpecLogic == Init /\ [][NextLogic]_vars

\* ------------------------------------------------- the protection system
\* Currents are in tenths of a kA and impedances in tenths of an ohm, so
\* that the settings of test_vpp (2.5 kA) are integers.
\* the keys of Registry::components_: typeid(Comp).hash_code() of the two
\* classes that can be emplaced and of their abstract base
ProtKinds == {"OverCurrentProtection", "DistanceProtection", "ProtectiveComp"}
Emplaceable == {"OverCurrentProtection", "DistanceProtection"}
NoComp == [class |-> "none"]
\* OverCurrentProtection(pickup_current_kA, delay_ms) as test_vpp constructs it
OverCurrentSettings ==
    {[class |-> "OverCurrentProtection", pickup |-> 50, delay |-> 200],
     [class |-> "OverCurrentProtection", pickup |-> 25, delay |-> 300]}
\* DistanceProtection(z1, t1, z2, t2, z3, t3) as test_vpp constructs it
DistanceSettings ==
    {[class |-> "DistanceProtection", z_set |-> <<50, 150, 250>>, t_ms |-> <<0, 300, 700>>]}
SettingsOf(k) ==
    IF k = "OverCurrentProtection" THEN OverCurrentSettings ELSE DistanceSettings

\* FaultInfo::voltage_kV, its default
voltage_kV == 220
\* the faults faultInjectorTask_prot builds: 15 kA or 3 kA, the impedance
\* given or left 0, on an entity or on none
FaultInfos(last) ==
    [current_kA : {30, 150}, impedance_Ohm : {0, 117}, faulty_entity_id : 0..last]
\* the delays of faultInjectorTask_prot before its two faults, and the
\* operating time of circuitBreakerAgentTask_prot (ms)
FirstFaultDelay == 6000
SecondFaultDelay == 7000
BreakerAgentDelay == 100
InjectorDelays == <<FirstFaultDelay, SecondFaultDelay>>

\* FaultInfo::calculate_impedance_if_needed
CalculateImpedanceIfNeeded(info) ==
    IF info.impedance_Ohm = 0 /\ voltage_kV > 0 /\ info.current_kA > 0
    THEN [info EXCEPT !.impedance_Ohm = (voltage_kV * 100) \div info.current_kA]
    ELSE info

\* OverCurrentProtection::pick_up and DistanceProtection::pick_up
PickUp(comp, fault_data, self_entity_id) ==
    IF comp.class = "OverCurrentProtection"
    THEN fault_data.current_kA >= comp.pickup
    ELSE IF fault_data.faulty_entity_id # self_entity_id /\ fault_data.faulty_entity_id # 0
         THEN fault_data.impedance_Ohm <= comp.z_set[3]
         ELSE \E z \in 1..3 : fault_data.impedance_Ohm <= comp.z_set[z]

\* OverCurrentProtection::trip_delay_ms and DistanceProtection::trip_delay_ms
TripDelayMs(comp, fault_data) ==
    IF comp.class = "OverCurrentProtection" THEN comp.delay
    ELSE IF fault_data.impedance_Ohm <= comp.z_set[1] THEN comp.t_ms[1]
    ELSE IF fault_data.impedance_Ohm <= comp.z_set[2] THEN comp.t_ms[2]
    ELSE IF fault_data.impedance_Ohm <= comp.z_set[3] THEN comp.t_ms[3]
    ELSE 99999

\* Registry::for_each<Comp>: the entities in the map found under the key of
\* Comp (none when components_ has no such key)
ForEach(comps, k) == {e \in DOMAIN comps[k] : comps[k][e] # NoComp}

\* the orders in which a range-for over the unordered_map can visit them
VisitOrders(S) ==
    {s \in [1..Cardinality(S) -> S] : \A i, j \in 1..Cardinality(S) : (s[i] = s[j]) => (i = j)}

OnlyProt ==
    UNCHANGED <<core, yields, typed, emis, asked, binding, registry, topology, answer,
                logic, threads>>

\* test_vpp: the Scheduler at time 0, the Registry and the ProtectionSystem
ProtectionSystemCtor ==
    /\ ~prot.built
    /\ prot' = [built |-> TRUE, last_id |-> 0,
                components |-> [k \in ProtKinds |-> [e \in 1..MaxEntity |-> NoComp]],
                started |-> FALSE, now |-> 0, timed_tasks |-> <<>>,
                run_waits |-> FALSE, agents |-> <<>>, injected |-> 0,
                faults |-> <<>>, trips |-> <<>>, opened |-> <<>>]
    /\ OnlyProt

\* test_vpp: registry.create() for a protected entity
ProtCreate ==
    /\ prot.built /\ ~prot.started
    /\ prot.last_id < MaxEntity
    /\ prot' = [prot EXCEPT !.last_id = @ + 1]
    /\ OnlyProt

\* test_vpp: registry.emplace<Comp>(e, ...) of a protection class
ProtEmplace(k, e, c) ==
    /\ prot.built /\ ~prot.started
    /\ e <= prot.last_id
    /\ prot' = [prot EXCEPT !.components[k][e] = c]
    /\ OnlyProt

\* test_vpp: run(), faultInjectorTask_prot and one circuitBreakerAgentTask_prot
\* for each entity are started and detached; each runs to its first co_await
ProtStart ==
    /\ prot.built /\ ~prot.started
    /\ prot.last_id > 0
    /\ prot' = [prot EXCEPT
            !.started = TRUE,
            !.run_waits = TRUE,
            !.timed_tasks = InsertTimer(@, prot.now + InjectorDelays[1],
                                        [fn |-> "faultInjectorTask_prot", e |-> 0]),
            !.agents = [i \in 1..prot.last_id |-> i]]
    /\ OnlyProt

\* trip_later reaching trigger_event(ENTITY_TRIP_EVENT_PROT, e) at time t: the
\* agents waiting are resumed, the one of e starts its operating delay and
\* the others wait again
RECURSIVE TripAll(_, _, _)
TripAll(p, es, t) ==
    IF es = <<>> THEN p
    ELSE LET e == Head(es)
             hit == \E i \in 1..Len(p.agents) : p.agents[i] = e
             q == [p EXCEPT
                     !.trips = Append(@, [at |-> t, e |-> e]),
                     !.agents = IF hit
                                THEN SelectSeq(@, LAMBDA a : a # e)
                                ELSE @,
                     !.timed_tasks =
                          IF hit
                          THEN InsertTimer(@, t + BreakerAgentDelay,
                                 [fn |-> "circuitBreakerAgentTask_prot", e |-> e])
                          ELSE @]
         IN  TripAll(q, Tail(es), t)

\* run() in its for_each: trip_later is started for each component visited
\* that picks up; it suspends in delay(delay_ms), or passes it when
\* delay_ms <= 0 and triggers the trip at once
RECURSIVE VisitAll(_, _, _, _)
VisitAll(p, order, k, fault_data) ==
    IF order = <<>> THEN p
    ELSE LET e == Head(order)
             comp == p.components[k][e]
             q == IF ~PickUp(comp, fault_data, e) THEN p
                  ELSE IF AwaitReady(TripDelayMs(comp, fault_data))
                  THEN TripAll(p, <<e>>, p.now)
                  ELSE [p EXCEPT !.timed_tasks =
                           InsertTimer(@, p.now + TripDelayMs(comp, fault_data),
                                       [fn |-> "trip_later", e |-> e])]
         IN  VisitAll(q, Tail(order), k, fault_data)

\* the protective components attached to entities of the Registry
Attached(comps) == {<<k, e>> \in Emplaceable \X (1..MaxEntity) : comps[k][e] # NoComp}

\* inject_fault(info): trigger_event(FAULT_INFO_EVENT_PROT, info) resumes
\* run(), which visits for_each<ProtectiveComp> and waits again
InjectFault(p, info, order) ==
    IF ~p.run_waits THEN p
    ELSE LET fault_data == CalculateImpedanceIfNeeded(info)
             noted == [p EXCEPT !.faults = Append(@,
                          [at |-> p.now, fault_data |-> fault_data,
                           attached |-> Attached(p.components),
                           visited |-> {<<"ProtectiveComp", order[i]>> : i \in 1..Len(order)}])]
         IN  VisitAll(noted, order, "ProtectiveComp", fault_data)

\* the scheduler moves the clock to the next deadline and resumes the task
\* that is due: the injector, a trip_later or a breaker agent
ProtStep ==
    /\ prot.built /\ prot.started
    /\ prot.timed_tasks # <<>>
    /\ LET t == prot.timed_tasks[1].at
           h == prot.timed_tasks[1].t
           p == [prot EXCEPT !.now = IF t > @ THEN t ELSE @, !.timed_tasks = Tail(@)]
       IN  CASE h.fn = "faultInjectorTask_prot" ->
                  \E info \in FaultInfos(prot.last_id) :
                  \E order \in VisitOrders(ForEach(prot.components, "ProtectiveComp")) :
                      LET q == InjectFault(p, info, order)
                      IN  prot' = [q EXCEPT
                              !.injected = @ + 1,
                              !.timed_tasks =
                                  IF p.injected + 1 < Len(InjectorDelays)
                                  THEN InsertTimer(@, q.now + InjectorDelays[p.injected + 2], h)
                                  ELSE @]
             [] h.fn = "trip_later" -> prot' = TripAll(p, <<h.e>>, p.now)
             [] h.fn = "circuitBreakerAgentTask_prot" ->
                  prot' = [p EXCEPT !.opened = Append(@, [at |-> p.now, e |-> h.e]),
                                    !.agents = Append(@, h.e)]
    /\ OnlyProt

NextProt ==
    \/ ProtectionSystemCtor
    \/ ProtCreate
    \/ \E k \in Emplaceable, e \in 1..MaxEntity : \E c \in SettingsOf(k) : ProtEmplace(k, e, c)
    \/ ProtStart
    \/ ProtStep

SpecProt == Init /\ [][NextProt]_vars

\* ------------------------------------------------- the threaded VPP simulation
\* One step is one access to the shared data by one thread. The oracle is
\* thread 0 and the device threads are 1..MaxDevices. Simulated time is
\* counted in publications of the oracle: it ends the simulation when it has
\* published time MaxTick.
OracleThread == 0
DeviceThreads == 1..MaxDevices

OnlyThreads ==
    UNCHANGED <<core, yields, typed, emis, asked, binding, registry, topology, answer,
                logic, prot>>

ThreadsBuilt == threads.built

\* main: shared_freq_data, the oracle thread and the device threads
ThreadsStart ==
    /\ ~threads.built
    /\ threads' =
         [built |-> TRUE,
          g_simulation_running |-> TRUE,
          current_sim_time_ms |-> 0,
          mtx |-> {},
          cv |-> {},
          sim_time_ms_oracle |-> 0,
          last_processed_event_sim_time_ms |-> [d \in DeviceThreads |-> 0],
          current_event_sim_time_ms |-> [d \in DeviceThreads |-> 0],
          pc |-> [t \in DeviceThreads \cup {OracleThread} |-> "while"],
          main |-> "join_oracle"]
    /\ OnlyThreads

At(t, where) == threads.built /\ threads.pc[t] = where

\* std::condition_variable::notify_all: every thread blocked in wait goes on
\* to take the mutex again
NotifyAll(pc, cv) == [t \in DOMAIN pc |-> IF t \in cv THEN "reacquire" ELSE pc[t]]

\* frequency_oracle_thread_func: while (g_simulation_running.load())
OracleWhile ==
    /\ At(OracleThread, "while")
    /\ threads' = [threads EXCEPT !.pc[OracleThread] =
                      IF threads.g_simulation_running THEN "publish" ELSE "final"]
    /\ OnlyThreads

\* the block of the lock_guard: the mutex is taken, current_sim_time_ms is
\* written and the mutex is released
OraclePublish ==
    /\ At(OracleThread, "publish")
    /\ threads.mtx = {}
    /\ threads' = [threads EXCEPT !.current_sim_time_ms = threads.sim_time_ms_oracle,
                                  !.pc[OracleThread] = "notify"]
    /\ OnlyThreads

\* freq_data.cv.notify_all() after the publication
OracleNotify ==
    /\ At(OracleThread, "notify")
    /\ threads' = [threads EXCEPT
            !.cv = {},
            !.pc = [NotifyAll(threads.pc, threads.cv) EXCEPT ![OracleThread] = "test"]]
    /\ OnlyThreads

\* if (sim_time_s >= SIMULATION_DURATION_SECONDS), else the next time step
OracleTest ==
    /\ At(OracleThread, "test")
    /\ IF threads.sim_time_ms_oracle >= MaxTick
       THEN threads' = [threads EXCEPT !.pc[OracleThread] = "store"]
       ELSE threads' = [threads EXCEPT !.sim_time_ms_oracle = @ + 1,
                                       !.pc[OracleThread] = "while"]
    /\ OnlyThreads

\* g_simulation_running.store(false): the mutex is not held
OracleStore ==
    /\ At(OracleThread, "store")
    /\ threads' = [threads EXCEPT !.g_simulation_running = FALSE,
                                  !.pc[OracleThread] = "notify_end"]
    /\ OnlyThreads

\* freq_data.cv.notify_all() after the store, then break
OracleNotifyEnd ==
    /\ At(OracleThread, "notify_end")
    /\ threads' = [threads EXCEPT
            !.cv = {},
            !.pc = [NotifyAll(threads.pc, threads.cv) EXCEPT ![OracleThread] = "final"]]
    /\ OnlyThreads

\* after the loop: the flag is stored once more if it is still set
OracleFinal ==
    /\ At(OracleThread, "final")
    /\ threads' = [threads EXCEPT !.g_simulation_running = FALSE,
                                  !.pc[OracleThread] = "notify_final"]
    /\ OnlyThreads

\* the last freq_data.cv.notify_all(); the thread function returns
OracleNotifyFinal ==
    /\ At(OracleThread, "notify_final")
    /\ threads' = [threads EXCEPT
            !.cv = {},
            !.pc = [NotifyAll(threads.pc, threads.cv) EXCEPT ![OracleThread] = "done"]]
    /\ OnlyThreads

\* device_thread_func: while (g_simulation_running.load())
DeviceWhile(d) ==
    /\ At(d, "while")
    /\ threads' = [threads EXCEPT !.pc[d] =
                      IF threads.g_simulation_running THEN "lock" ELSE "exit"]
    /\ OnlyThreads

\* std::unique_lock<std::mutex> lock(freq_data.mtx), and the mutex taken
\* again by a thread that wait has woken
DeviceLock(d) ==
    /\ At(d, "lock") \/ At(d, "reacquire")
    /\ threads.mtx = {}
    /\ threads' = [threads EXCEPT !.mtx = {d}, !.pc[d] = "pred"]
    /\ OnlyThreads

\* the predicate passed to freq_data.cv.wait
WaitPredicate(current_sim_time_ms, last_processed, simulation_running) ==
    current_sim_time_ms > last_processed \/ ~simulation_running

\* cv.wait(lock, pred): while (!pred()) wait(lock); the predicate is
\* evaluated with the mutex held
DevicePredicate(d) ==
    /\ At(d, "pred")
    /\ threads' = [threads EXCEPT !.pc[d] =
            IF WaitPredicate(threads.current_sim_time_ms,
                             threads.last_processed_event_sim_time_ms[d],
                             threads.g_simulation_running)
            THEN "woken" ELSE "wait"]
    /\ OnlyThreads

\* wait(lock): the mutex is released and the thread blocks, in one step
DeviceWait(d) ==
    /\ At(d, "wait")
    /\ threads' = [threads EXCEPT !.mtx = {}, !.cv = @ \cup {d}, !.pc[d] = "blocked"]
    /\ OnlyThreads

\* a spurious wake-up of a thread blocked in wait
DeviceSpurious(d) ==
    /\ At(d, "blocked")
    /\ threads' = [threads EXCEPT !.cv = @ \ {d}, !.pc[d] = "reacquire"]
    /\ OnlyThreads

\* after wait, the mutex held: break if the simulation has ended, else the
\* published time is copied; the block ends and the mutex is released
DeviceRead(d) ==
    /\ At(d, "woken")
    /\ IF ~threads.g_simulation_running
       THEN threads' = [threads EXCEPT !.mtx = {}, !.pc[d] = "exit"]
       ELSE threads' = [threads EXCEPT
                !.mtx = {},
                !.current_event_sim_time_ms[d] = threads.current_sim_time_ms,
                !.pc[d] = "process"]
    /\ OnlyThreads

\* the event is skipped if it is not newer than the last one processed, else
\* it is processed; the loop continues
DeviceProcess(d) ==
    /\ At(d, "process")
    /\ threads' = [threads EXCEPT
            !.last_processed_event_sim_time_ms[d] =
                IF threads.current_event_sim_time_ms[d] <= @ THEN @
                ELSE threads.current_event_sim_time_ms[d],
            !.pc[d] = "while"]
    /\ OnlyThreads

\* the thread function returns
DeviceExit(d) ==
    /\ At(d, "exit")
    /\ threads' = [threads EXCEPT !.pc[d] = "done"]
    /\ OnlyThreads

\* main: oracle_thread.join(), then th.join() for every device thread
MainJoin ==
    /\ threads.built
    /\ \/ /\ threads.main = "join_oracle"
          /\ threads.pc[OracleThread] = "done"
          /\ threads' = [threads EXCEPT !.main = "join_devices"]
       \/ /\ threads.main = "join_devices"
          /\ \A d \in DeviceThreads : threads.pc[d] = "done"
          /\ threads' = [threads EXCEPT !.main = "returned"]
    /\ OnlyThreads

OracleNext ==
    \/ OracleWhile
    \/ OraclePublish
    \/ OracleNotify
    \/ OracleTest
    \/ OracleStore
    \/ OracleNotifyEnd
    \/ OracleFinal
    \/ OracleNotifyFinal

\* the steps a device thread takes by itself
DeviceNext(d) ==
    \/ DeviceWhile(d)
    \/ DeviceLock(d)
    \/ DevicePredicate(d)
    \/ DeviceWait(d)
    \/ DeviceRead(d)
    \/ DeviceProcess(d)
    \/ DeviceExit(d)

NextThreads ==
    \/ ThreadsStart
    \/ OracleNext
    \/ \E d \in DeviceThreads : DeviceNext(d)
    \/ \E d \in DeviceThreads : DeviceSpurious(d)
    \/ MainJoin

\* every thread that can run is scheduled again and again; a spurious
\* wake-up may happen but is never owed
SpecThreads ==
    /\ Init /\ [][NextThreads]_vars
    /\ WF_vars(ThreadsStart)
    /\ WF_vars(OracleNext)
    /\ \A d \in DeviceThreads : SF_vars(DeviceNext(d))
    /\ WF_vars(MainJoin)

\* ------------------------------------------------- properties
Frames        == 1..Len(stack)
PendingDelay  == {t \in Tasks : st[t] = "delay"}
PendingEvent  == {t \in Tasks : st[t] = "event"}
InTimers(t)   == \E k \in 1..Len(timers) : timers[k].t = t
SubCount(t)   == Cardinality({k \in 1..Len(handlers) : handlers[k].t = t})
TodoCount(i, t) == Cardinality({k \in 1..Len(stack[i].todo) : stack[i].todo[k] = t})

\* C1: under task creation, delay and event awaits, trigger_event,
\* run_one_step, run_until and run_real_time_until (no set_time, no
\* advance_time), no step lowers now().
C1_MonotonicTime == [][now' >= now]_vars

\* C1 witness: the clock has advanced and a coroutine resumed from a delay reads it.
C1_Witness == now > 0 /\ Len(stack) > 1 /\ Top.from = "delay" /\ drv.op = "until"

\* C2: a coroutine that suspended on delay(d), d > 0, at time t_before is
\* executing again only when now() >= t_before + d, whichever run call
\* resumed it.
C2_DelayLowerBound ==
    \A i \in Frames : stack[i].from = "delay" => (stack[i].due > 0 /\ now >= stack[i].due)

\* C2 witness: run_real_time_until has resumed a delayed coroutine.
C2_Witness == drv.op = "rt" /\ Len(stack) > 1 /\ stack[2].from = "delay" /\ stack[2].due > 1

\* C3: when a coroutine is resumed from a delay, no coroutine still pending
\* on a delay with the same deadline registered its delay earlier.
C3_SameDeadlineFifo ==
    [][\A t \in Tasks :
         (st[t] = "delay" /\ st'[t] = "run") =>
             \A u \in Tasks :
                 (u # t /\ st[u] = "delay" /\ due[u] = due[t]) => ~Before(delayOrder, u, t)]_vars

\* C3 witness: a coroutine resumed from a delay runs while a coroutine with
\* the same deadline, which is not the next one created after it, still waits.
C3_Witness ==
    \E i \in Frames : \E u \in Tasks :
        /\ stack[i].from = "delay"
        /\ st[u] = "delay" /\ due[u] = stack[i].due
        /\ u < stack[i].t

\* C4: one trigger_event(id, v) resumes each coroutine subscribed to id at
\* the call exactly once, with v, its subscription removed; a coroutine that
\* subscribes later is left registered and gets nothing of that emission.
C4_OneShotDelivery ==
    /\ \A i \in Frames :
          stack[i].from = "event" =>
              /\ i > 1
              /\ stack[i].em = i - 1
              /\ stack[i - 1].id = stack[i].wid
              /\ stack[i].got = stack[i - 1].val
              /\ stack[i].got \in Vals
    /\ \A t \in Tasks :
          owed[t] # 0 =>
              /\ st[t] = "event"
              /\ owed[t] <= Len(stack)
              /\ TodoCount(owed[t], t) = 1
              /\ stack[owed[t]].id = waitId[t]
              /\ SubCount(t) = 0
    /\ \A i \in Frames : \A k \in 1..Len(stack[i].todo) : owed[stack[i].todo[k]] = i
    /\ \A t \in PendingEvent :
          owed[t] = 0 =>
              /\ SubCount(t) = 1
              /\ \E k \in 1..Len(handlers) : handlers[k] = [id |-> waitId[t], t |-> t]
    /\ \A t \in Tasks : st[t] # "event" => SubCount(t) = 0

\* C4 witness: a subscriber runs with the payload while a coroutine that
\* subscribed to the same id after the call stays registered.
C4_Witness ==
    \E i \in Frames : \E u \in Tasks :
        /\ stack[i].from = "event" /\ stack[i].got \in Vals
        /\ st[u] = "event" /\ owed[u] = 0 /\ waitId[u] = stack[i].wid

\* C5: within one trigger_event the subscribers are resumed in subscription
\* order: when one is resumed, none that the same call still has to notify
\* subscribed before it, whatever is registered under other ids.
C5_SubscriptionOrder ==
    [][\A t \in Tasks :
         (st[t] = "event" /\ st'[t] = "run") =>
             \A u \in Tasks :
                 (u # t /\ owed[u] # 0 /\ owed[u] = owed[t]) => ~Before(subOrder, u, t)]_vars

\* C5 witness: the first of two subscribers runs, the second is still to be
\* notified, and a subscription under another id was made between them.
C5_Witness ==
    \E i \in Frames : \E u, w \in Tasks :
        /\ stack[i].from = "event" /\ i > 1
        /\ InSeq(stack[i - 1].todo, u)
        /\ st[w] = "event" /\ waitId[w] # stack[i].wid
        /\ stack[i].t < w /\ w < u

\* C6 as stated: no subscriber runs inside a trigger_event that a running
\* coroutine called.
C6_NoSubscriberInsideTrigger ==
    \A i \in Frames : (i > 1 /\ stack[i].from = "event") => stack[i - 1].t = 0

\* C6 amended: trigger_event resumes every subscriber inside the call, nested
\* in the emitter, which stays stopped in trigger_event; nothing waiting for
\* an event is put on ready, and only the innermost body executes.
C6_SynchronousDelivery ==
    /\ \A k \in 1..Len(ready) : st[ready[k]] # "event"
    /\ \A t \in Tasks : owed[t] # 0 => (owed[t] <= Len(stack) /\ InSeq(stack[owed[t]].todo, t))
    /\ \A i \in Frames :
          i < Len(stack) =>
              \/ stack[i + 1].from = "new"
              \/ stack[i + 1].from = "event" /\ stack[i].val # 0 /\ stack[i + 1].em = i
              \/ stack[i + 1].from = "delay" /\ i = 1 /\ drv.op \in {"idle", "until", "rt"}

\* C6 witness: a subscriber executes inside the trigger_event of a coroutine.
C6_Witness ==
    \E i \in Frames : i > 2 /\ stack[i].from = "event" /\ stack[i - 1].t # 0

\* C7 as stated: the body of a coroutine created by a running coroutine does
\* not execute while its creator is still running.
C7_NotBeforeCreatorSuspends ==
    \A i \in Frames : (i > 2 /\ stack[i].from = "new") => st[stack[i - 1].t] # "run"

\* C7 amended: a coroutine created by a running coroutine is never queued:
\* its body starts inside the creating call, on top of its creator, and the
\* ready queue only ever holds coroutines moved there from the timers.
C7_EagerStart ==
    /\ \A t \in Tasks : st[t] # "new"
    /\ \A k \in 1..Len(ready) : st[ready[k]] = "delay"
    /\ \A i \in Frames :
          stack[i].from = "new" => (i > 1 /\ stack[i - 1].todo = <<>>)
    /\ \A t \in Tasks : st[t] = "run" <=> (\E i \in Frames : stack[i].t = t)

\* C7 witness: the new body executes on top of the coroutine that created it.
C7_Witness ==
    \E i \in Frames : i > 2 /\ stack[i].from = "new" /\ st[stack[i - 1].t] = "run"

\* C8 as stated: once a kept Task handle is dropped while its coroutine is
\* suspended, that coroutine never executes again and the run is not lost.
C8_CancelledNeverRuns ==
    /\ \A i \in Frames : stack[i].t \notin destroyed
    /\ ~crashed

\* C9: run_until(D) called with now() <= D returns with now() = D.
C9_RunUntilEndsAtDeadline ==
    (drv.last = "until" /\ drv.pre) => now = drv.end

\* C9 witness: run_until returned at D because the earliest timer is beyond D.
C9_Witness ==
    /\ drv.last = "until" /\ drv.pre /\ now = drv.end
    /\ timers # <<>> /\ Head(timers).at > drv.end
    /\ \E t \in Tasks : st[t] = "done"

\* C10: run_until(D) resumes only delays with a deadline < D and leaves the
\* others in the timer queue; when it returns no delay with a deadline < D is
\* pending, so a later run with a greater end time resumes those left.
C10_StrictlyBeforeEnd ==
    /\ drv.op = "until" =>
          /\ \A i \in Frames : stack[i].from = "delay" => stack[i].due < drv.end
          /\ \A t \in PendingDelay : due[t] >= drv.end => InTimers(t)
    /\ drv.last \in {"until", "rt"} => \A t \in PendingDelay : due[t] >= drv.end
    /\ (drv.last = "until" /\ drv.ran) => (ready = <<>> /\ \A t \in PendingDelay : InTimers(t))

\* C10 witness: run_until(D) returned leaving a delay whose deadline is D.
C10_Witness ==
    /\ drv.last = "until" /\ drv.ran /\ now = drv.end
    /\ \E t \in PendingDelay : due[t] = drv.end /\ InTimers(t)
    /\ \E t \in Tasks : st[t] = "done"

\* C11 as stated: co_await delay(d) with d <= 0 suspends the coroutine and
\* puts it at the back of the ready queue.
C11_ZeroDelayYields ==
    [][yields' # yields =>
          /\ st'[Top.t] # "run"
          /\ ready' = Append(ready, Top.t)]_vars

\* C11 amended: co_await delay(d) with d <= 0 falls through: the coroutine
\* keeps executing, nothing is put on the ready queue or the timers, the
\* clock stays, and the coroutines in the ready queue keep waiting.
C11_ZeroDelayFallsThrough ==
    [][yields' # yields =>
          /\ stack' = stack /\ st' = st
          /\ ready' = ready /\ timers' = timers /\ now' = now]_vars

\* C11 witness: a body went through delay(d), d <= 0, while another coroutine
\* was in the ready queue, and is still executing with that one still queued.
C11_Witness ==
    /\ yields # <<>> /\ yields[Len(yields)] > 0
    /\ Len(stack) > 1 /\ ready # <<>>

\* C12: a subscription to id registered while trigger_event(id) is in its
\* handler loop is not in that call's handlers_to_call and stays registered;
\* a subscriber is resumed only by a call that found it registered.
C12_LateSubscriptionWaits ==
    /\ [](\A i \in Frames : \A t \in PendingEvent :
             (stack[i].id # 0 /\ waitId[t] = stack[i].id /\ owed[t] = 0) =>
                 /\ ~InSeq(stack[i].todo, t)
                 /\ SubCount(t) = 1
                 /\ \E k \in 1..Len(handlers) : handlers[k] = [id |-> waitId[t], t |-> t])
    /\ [][\A t \in Tasks :
             (st[t] = "event" /\ st'[t] = "run") => owed[t] = Len(stack)]_vars

\* C12 witness: the driver's trigger_event(id) has resumed its first
\* subscriber, which awaited id again; the call still has its second
\* subscriber to notify and the first is registered anew.
C12_Witness ==
    \E t \in PendingEvent :
        /\ Len(stack) = 1 /\ Top.id = waitId[t] /\ Top.todo # <<>>
        /\ owed[t] = 0 /\ SubCount(t) = 1
        /\ \A u \in Tasks : u = t \/ InSeq(Top.todo, u) \/ st[u] = "none"

\* C13: every coroutine is resumed with the emissions it receives in the
\* order the trigger_event calls were made and with none of them twice; so
\* of two events a body emits one after the other, a subscriber of both
\* observes the first before the second.
C13_ProgramOrder ==
    \A t \in Tasks : \A a, b \in 1..Len(seen[t]) :
        a < b => seen[t][a].n < seen[t][b].n

\* C13 witness: a coroutine received two emissions of one body, a task, which
\* between its two trigger_event calls did nothing: the only library call in
\* between is the subscriber awaiting the second event.
C13_Witness ==
    \E t \in Tasks :
        /\ Len(seen[t]) = 2
        /\ seen[t][1].by # 0 /\ seen[t][1].by = seen[t][2].by
        /\ seen[t][2].n = seen[t][1].n + 1
        /\ seen[t][2].at = seen[t][1].at + 2

\* C14 as stated: a subscriber awaiting wait_for_event<T>(id) is not resumed
\* as if delivery had succeeded by a trigger_event<U>(id, v) with U # T (it
\* gets a TypeMismatch error, and the run goes on), while the subscribers
\* awaiting U in the same emission are resumed with v.
C14_TypeMismatchReported ==
    /\ ~crashed
    /\ \A i \in Frames :
          stack[i].from = "event" =>
              /\ wtype[stack[i].t] = utype[stack[i].em]
              /\ stack[i].got = stack[stack[i].em].val

\* the coroutines a step resumes
Resumed == {t \in Tasks : st[t] # "run" /\ st'[t] = "run"}
\* a step of the driver that is a call of run_one_step
StepTaken == AtDriver /\ drv.op = "idle" /\ drv'.last = "step"
\* a comes before b in the timer queue: earlier deadline, or the same
\* deadline and registered first
QueuedBefore(a, b) ==
    due[a] < due[b] \/ (due[a] = due[b] /\ Before(delayOrder, a, b))

\* C15: run_one_step with a non-empty ready queue resumes the front handle
\* and nothing else, the clock and the timers untouched; with an empty ready
\* queue and timers pending it moves the clock to the earliest deadline unless
\* that is in the past, moves exactly the timers with a deadline <= now() to
\* the ready queue in their queue order (insertion order for equal deadlines)
\* and resumes the first of them only; it returns false exactly when both
\* are empty, whatever handlers are registered, and then changes nothing.
C15_RunOneStep ==
    [][StepTaken =>
        /\ drv'.ret <=> (ready # <<>> \/ timers # <<>>)
        /\ ready # <<>> =>
              /\ now' = now /\ timers' = timers /\ ready' = Tail(ready)
              /\ Resumed = {Head(ready)}
              /\ stack' = Append(stack, stack'[Len(stack')]) /\ Top'.t = Head(ready)
        /\ (ready = <<>> /\ timers # <<>>) =>
              /\ now' >= now /\ now' >= Head(timers).at
              /\ now' \in {now, Head(timers).at}
              /\ stack' = Append(stack, stack'[Len(stack')])
              /\ Resumed = {Top'.t}
              /\ LET moved == <<Top'.t>> \o ready'
                 IN  /\ \A k \in 1..Len(timers) :
                          timers[k].at <= now' <=> InSeq(moved, timers[k].t)
                     /\ Len(moved) + Len(timers') = Len(timers)
                     /\ timers' = SelectSeq(timers, LAMBDA e : e.at > now')
                     /\ \A a, b \in 1..Len(moved) :
                          a < b => QueuedBefore(moved[a], moved[b])
        /\ (ready = <<>> /\ timers = <<>>) =>
              UNCHANGED <<now, ready, timers, handlers, st, destroyed, owned, stack,
                          crashed, ops, due, delayOrder, waitId, subOrder, owed>>]_vars

\* C15 witness: run_one_step found two timers due, registered in the order
\* opposite to their deadlines, after the driver had moved the clock past the
\* earlier one: it left the clock, resumed the earlier, queued the later.
C15_Witness ==
    /\ drv.last = "step" /\ drv.ret /\ Len(stack) = 2 /\ Top.from = "delay"
    /\ ready # <<>> /\ now >= due[Head(ready)] /\ now > Top.due
    /\ Top.due < due[Head(ready)] /\ Head(ready) < Top.t

\* C15 witness (idle): run_one_step returned false with both queues empty
\* while a coroutine was subscribed to an event.
C15_WitnessIdle ==
    /\ drv.last = "step" /\ ~drv.ret /\ handlers # <<>>

\* C16 as stated: is_done() returns true if and only if the body of the
\* coroutine has completed.
C16_DoneIffCompleted ==
    [][asked' # asked => (asked'.ret <=> st[asked'.t] = "done")]_vars

\* C16 amended: is_done() returns true if and only if the Task's handle is
\* empty (after detach()) or the body has completed; on a kept handle it is
\* false while the coroutine is suspended; the call changes nothing.
C16_DoneOrDetached ==
    [][asked' # asked =>
          /\ asked'.ret <=> (asked'.t \notin owned \/ st[asked'.t] = "done")
          /\ asked'.t \in owned => (asked'.ret <=> st[asked'.t] = "done")
          /\ UNCHANGED <<now, ready, timers, handlers, st, owned, stack>>]_vars

\* C16 witness: is_done() returned true for a coroutine that is suspended,
\* its handle having been detached, while the kept handle of another
\* suspended coroutine exists.
C16_Witness ==
    /\ asked.t # 0 /\ asked.ret
    /\ st[asked.t] \in {"delay", "event"} /\ asked.t \notin owned
    /\ \E u \in owned : st[u] \in {"delay", "event"}

\* C17 as stated: a coroutine resumed by a live Scheduler S that then
\* suspends registers with S, never with another Scheduler and never with
\* none (the immediate resume).
C17_RegistersWithResumer ==
    \A c \in Coros : resumer[c] # 0 => (resumer[c] \in alive => reg[c] = resumer[c])

\* C18 as stated: run_real_time_until(D) called with now() <= D returns
\* with now() = D and resumes no delay whose deadline is beyond D.
C18_SameAsRunUntil ==
    /\ (drv.last = "rt" /\ drv.pre) => now = drv.end
    /\ drv.op = "rt" =>
          \A i \in Frames : (i = 2 /\ stack[i].from = "delay") => stack[i].due <= drv.end

\* C18 amended: run_real_time_until(D) is run_one_step repeated while
\* now() < D and work is pending.  At a turn of its loop with a handle ready,
\* or with the earliest deadline neither past nor >= D, it resumes the handle
\* run_until(D) would resume next, at the same virtual time, the same queues
\* left.  With the earliest deadline already past it resumes that same handle
\* without moving the clock, where run_until(D) sets the clock back to the
\* deadline.  With the earliest deadline >= D, where run_until(D) stops and
\* sets now() = D, it moves the clock to that deadline and resumes the first
\* handle due then.  It returns with now() >= D when called with now() <= D.
C18_RealTimeOvershoot ==
    /\ (drv.op = "rt" /\ AtDriver /\ now < drv.end /\ HasPendingTasks(ready, timers)) =>
          LET r == OneStep(now, ready, timers)
              u == UntilResume(now, ready, timers, drv.end)
          IN  IF ready # <<>> \/ (now <= Head(timers).at /\ Head(timers).at < drv.end)
              THEN /\ u.h # 0 /\ r.h = u.h /\ r.now = u.now
                   /\ r.ready = u.ready /\ r.timers = u.timers
                   /\ r.now < drv.end
              ELSE IF Head(timers).at < now
              THEN /\ u.h # 0 /\ r.h = u.h
                   /\ r.now = now /\ u.now = Head(timers).at
              ELSE /\ u.h = 0 /\ u.now = drv.end
                   /\ r.h = Head(timers).t
                   /\ r.now = Head(timers).at /\ r.now >= drv.end
    /\ (drv.last = "rt" /\ drv.pre) =>
          /\ now >= drv.end
          /\ now > drv.end => (drv.ran /\ \A k \in 1..Len(timers) : timers[k].at > now)

\* C18 witness: run_real_time_until(D) has resumed a delay whose deadline is
\* beyond D, with the clock at that deadline.
C18_Witness ==
    /\ drv.op = "rt" /\ Len(stack) = 2 /\ Top.from = "delay"
    /\ Top.due > drv.end /\ now = Top.due /\ drv.pre

\* the (kind, entity) pairs
Pairs == Kinds \X Entities
Cell(p) == components[p[1]][p[2]]

\* C19: components of different (kind, entity) pairs are different objects;
\* a call that changes the Registry's components is an emplace on one pair:
\* that pair gets one component, a new object, and every other pair keeps
\* its component, value and address; the address get returned for a pair
\* is that of its component for as long as emplace is not called on that pair.
C19_EmplaceFrame ==
    /\ [](
           /\ \A p, q \in Pairs :
                (p # q /\ Cell(p) # Absent /\ Cell(q) # Absent) => (Cell(p).addr # Cell(q).addr)
           /\ \A p \in Pairs : (Cell(p) # Absent) => (Cell(p).addr \in Addrs /\ Cell(p).val \in Vals)
           /\ (ptr.addr # 0 /\ ~ptr.stale) =>
                 (/\ components[ptr.k][ptr.e].addr = ptr.addr
                  /\ ptr.addr \in Live(components)))
    /\ [][(components' # components) =>
            (\E p \in Pairs :
                /\ components'[p[1]][p[2]] # Absent
                /\ components'[p[1]][p[2]].addr \notin Live(components)
                /\ \A q \in Pairs :
                      (q # p) => (components'[q[1]][q[2]] = components[q[1]][q[2]]))]_vars

\* C19 witness: emplace has replaced the component of the pair get was last
\* asked about, while both other pairs of its kind and entity hold components.
C19_Witness ==
    /\ ptr.addr # 0 /\ ptr.stale
    /\ components[ptr.k][ptr.e] # Absent /\ components[ptr.k][ptr.e].addr # ptr.addr
    /\ \E q \in Pairs : q[1] # ptr.k /\ q[2] = ptr.e /\ Cell(q) # Absent
    /\ \E q \in Pairs : q[1] = ptr.k /\ q[2] # ptr.e /\ Cell(q) # Absent

\* the entries under internal index u
Conns(u) == {adjacency_list[u][k] : k \in 1..Len(adjacency_list[u])}

\* C20: the adjacency list has one slot per entry of internal_idx_to_bus_id,
\* every entry (b, v) under u names a slot v, and (b, u) is an entry under v.
C20_AdjacencySymmetric ==
    /\ Len(adjacency_list) = Len(internal_idx_to_bus_id)
    /\ \A u \in 1..Len(adjacency_list) : \A c \in Conns(u) :
          /\ c.internal_bus_idx \in 1..Len(adjacency_list)
          /\ [branch_id |-> c.branch_id, internal_bus_idx |-> u] \in Conns(c.internal_bus_idx)

\* C20 witness: openBranch has taken a branch out and a branch between two
\* different slots is still there.
C20_Witness ==
    /\ result = "true"
    /\ \E u \in 1..Len(adjacency_list) : \E c \in Conns(u) : c.internal_bus_idx # u

\* the adjacency entries of branch b, as (slot, position) pairs
EntriesOf(b) ==
    {p \in UNION {{<<u, k>> : k \in 1..Len(adjacency_list[u])} : u \in 1..Len(adjacency_list)} :
        adjacency_list[p[1]][p[2]].branch_id = b}

\* C21 (as stated): a branch id in branch_endpoints_map has exactly two
\* adjacency entries, one under each endpoint towards the other; a branch id
\* not in the map has none.
C21_BranchAtomic ==
    \A b \in BranchIds :
        IF branch_endpoints_map[b] = NoBranch
        THEN EntriesOf(b) = {}
        ELSE LET u == GetBusInternalIndex(branch_endpoints_map[b][1])
                 v == GetBusInternalIndex(branch_endpoints_map[b][2])
             IN  /\ Cardinality(EntriesOf(b)) = 2
                 /\ [branch_id |-> b, internal_bus_idx |-> v] \in Conns(u)
                 /\ [branch_id |-> b, internal_bus_idx |-> u] \in Conns(v)

\* C22: a call of buildTopology that ends with invalid_argument leaves the
\* four containers as they were, and a call with vectors of equal size does
\* not end that way.
C22_MismatchRejected ==
    /\ [][(result' = "invalid_argument") =>
            UNCHANGED <<adjacency_list, bus_to_internal_idx,
                        internal_idx_to_bus_id, branch_endpoints_map>>]_vars
    /\ [][(args' # args) => (result' = "void")]_vars

\* C22 witness: a call has just been rejected while the topology built
\* before holds a branch.
C22_Witness ==
    /\ result = "invalid_argument"
    /\ \E u \in 1..Len(adjacency_list) : adjacency_list[u] # <<>>

\* C23 (as stated): bus_to_internal_idx is a bijection between the bus ids
\* present and the internal indices, no bus_ids vector with a repeated id
\* having been accepted.
C23_BusIndexBijection ==
    /\ \A i \in 1..Len(internal_idx_to_bus_id) :
          bus_to_internal_idx[internal_idx_to_bus_id[i]] = i
    /\ (result = "void") =>
          (\A i, j \in 1..Len(args.bus_ids) :
              (args.bus_ids[i] = args.bus_ids[j]) => (i = j))

\* the slots one adjacency entry away from a slot of S
Next1(S) == S \cup {c.internal_bus_idx : c \in UNION {Conns(u) : u \in S}}
\* the slots joined to u by adjacency entries
RECURSIVE Grow(_)
Grow(S) == IF Next1(S) = S THEN S ELSE Grow(Next1(S))
Component(u) == Grow({u})
Lowest(S) == CHOOSE x \in S : \A y \in S : x <= y
Components == {Component(u) : u \in Slots}

Step(S, open) ==
    S \cup {c.internal_bus_idx :
               c \in {d \in UNION {Conns(u) : u \in S} : d.branch_id \notin open}}
\* the least number of such entries from a slot of S to slot v, plus k; -1
\* if there is no way
RECURSIVE Hops(_, _, _, _)
Hops(S, k, v, open) ==
    IF v \in S THEN k
    ELSE IF Step(S, open) = S THEN 0 - 1
    ELSE Hops(Step(S, open), k + 1, v, open)
Distance(u, v, open) == Hops({u}, 0, v, open)

C25_WitnessTwo ==
    /\ answer.fn = "findPath" /\ answer.found /\ Len(answer.branches) = 2

\* the positions under slot u of the entries that lead to slot v
EntriesTo(u, v) ==
    {k \in 1..Len(adjacency_list[u]) : adjacency_list[u][k].internal_bus_idx = v}
\* the slots joined to u once the entries between a and b are left out
StepWithout(S, a, b) ==
    S \cup {c.internal_bus_idx :
               c \in UNION {{d \in Conns(u) : {u, d.internal_bus_idx} # {a, b}} : u \in S}}
RECURSIVE GrowWithout(_, _, _)
GrowWithout(S, a, b) ==
    IF StepWithout(S, a, b) = S THEN S ELSE GrowWithout(StepWithout(S, a, b), a, b)
\* no two branches between the same two slots, no two self-loops on a slot
NoParallel ==
    \A u, v \in Slots :
        Cardinality(EntriesTo(u, v)) <= (IF u = v THEN 2 ELSE 1)
\* the branches whose opening splits an island, as (slot, slot, id)
Bridges ==
    {e \in Slots \X Slots \X BranchIds :
        /\ e[1] < e[2]
        /\ [branch_id |-> e[3], internal_bus_idx |-> e[2]] \in Conns(e[1])
        /\ e[2] \notin GrowWithout({e[1]}, e[1], e[2])}
Occurrences(seq, x) == Cardinality({i \in 1..Len(seq) : seq[i] = x})

\* C26 (as stated): when two branches with different ids join the same two
\* different slots, findCriticalLines returns neither id.
C26_ParallelNotCritical ==
    (answer.fn = "findCriticalLines") =>
        \A u, v \in Slots : \A c, d \in Conns(u) :
            (/\ u # v
             /\ c.internal_bus_idx = v /\ d.internal_bus_idx = v
             /\ c.branch_id # d.branch_id)
            => (Occurrences(answer.lines, c.branch_id) = 0
                /\ Occurrences(answer.lines, d.branch_id) = 0)

C27_WitnessChain ==
    /\ answer.fn = "findCriticalLines" /\ NoParallel
    /\ Len(answer.lines) = 2 /\ answer.lines[1] # answer.lines[2]

\* the slots joined to the slots of S once slot x and its entries are left out
StepAround(S, x) ==
    (S \cup {c.internal_bus_idx : c \in UNION {Conns(u) : u \in S}}) \ {x}
RECURSIVE GrowAround(_, _)
GrowAround(S, x) ==
    IF StepAround(S, x) = S THEN S ELSE GrowAround(StepAround(S, x), x)
\* removing slot x with its branches splits the rest of its island
Articulation(x) ==
    LET rest == Component(x) \ {x}
    IN  \E a, b \in rest : b \notin GrowAround({a}, x)
\* the ids of the slots of S, in slot order
RECURSIVE IdsOf(_, _)
IdsOf(i, S) ==
    IF i > Len(internal_idx_to_bus_id) THEN <<>>
    ELSE (IF i \in S THEN <<internal_idx_to_bus_id[i]>> ELSE <<>>) \o IdsOf(i + 1, S)

C28_WitnessRoot ==
    /\ answer.fn = "findCriticalBuses"
    /\ Len(answer.is_critical) = 3 /\ answer.is_critical[1]

\* C28 witness of parallel branches: two branches join the same two buses
\* and no bus is returned.
C28_WitnessParallel ==
    /\ answer.fn = "findCriticalBuses"
    /\ \E u, v \in Slots : u # v /\ Cardinality(EntriesTo(u, v)) = 2
    /\ answer.buses = <<>>

\* the island with index k: the component with k components before it
IslandOf(k) ==
    CHOOSE C \in Components :
        Cardinality({D \in Components : Lowest(D) < Lowest(C)}) = k
\* the slots of C form a tree: no self-loop, no two branches between the
\* same two slots, and every branch separates its two slots when left out
Tree(C) ==
    \A u, v \in C :
        /\ (u = v) => (EntriesTo(u, v) = {})
        /\ (u # v) => /\ Cardinality(EntriesTo(u, v)) <= 1
                      /\ (EntriesTo(u, v) # {}) => (v \notin GrowWithout({u}, u, v))
\* the number of branches among the slots of C
RECURSIVE Degrees(_)
Degrees(C) ==
    IF C = {} THEN 0
    ELSE LET u == CHOOSE x \in C : TRUE
         IN  Len(adjacency_list[u]) + Degrees(C \ {u})
DistinctBusIds ==
    \A i, j \in Slots : (internal_idx_to_bus_id[i] = internal_idx_to_bus_id[j]) => (i = j)

\* C29 (as stated): checkRadialIslands has an entry for every island index
\* and no other; the entry of island k is true iff the slots of island k form
\* a tree, and then its number of branches is its number of buses less one.
C29_RadialIslands ==
    (answer.fn = "checkRadialIslands") =>
        /\ DOMAIN answer.radial = 0..(Cardinality(Components) - 1)
        /\ \A k \in DOMAIN answer.radial :
              /\ answer.radial[k] <=> Tree(IslandOf(k))
              /\ answer.radial[k] <=>
                   (Degrees(IslandOf(k)) = 2 * (Cardinality(IslandOf(k)) - 1))

\* C29 when no bus id was passed twice to buildTopology
C29_RadialDistinct ==
    DistinctBusIds => C29_RadialIslands

\* the slots of the sources of the trace that are in the topology
SourceSlots == {GetBusInternalIndex(answer.sources[k]) : k \in 1..Len(answer.sources)} \ {0}
\* the slots reached from the sources, and the slots within d branches of one
Fed == Grow(SourceSlots)
RECURSIVE Near(_)
Near(d) == IF d = 0 THEN SourceSlots ELSE Next1(Near(d - 1))
\* the number of branches between slot u of Fed and the nearest source
Depth(u) == CHOOSE d \in 0..Len(adjacency_list) : u \in Near(d) /\ (d = 0 \/ u \notin Near(d - 1))
\* answer.parent is a breadth-first forest of the sources: a source and a
\* slot that is not reached have no parent, any other slot has a neighbour
\* one branch nearer to a source
IsBfsForest ==
    \A v \in Slots :
        IF v \in Fed \ SourceSlots
        THEN /\ answer.parent[v] \in Fed
             /\ EntriesTo(answer.parent[v], v) # {}
             /\ Depth(answer.parent[v]) = Depth(v) - 1
        ELSE answer.parent[v] = 0
\* the slots whose parent chain passes through slot x, x included
RECURSIVE Below(_)
Below(S) ==
    LET T == S \cup {v \in Slots : answer.parent[v] \in S}
    IN  IF T = S THEN S ELSE Below(T)
\* the ids of the branches with both ends in S
Inside(S) ==
    {b \in BranchIds : \E u, v \in S :
        [branch_id |-> b, internal_bus_idx |-> v] \in Conns(u)}
IsAscending(seq) == \A i, j \in 1..Len(seq) : (i < j) => (seq[i] < seq[j])
Range(seq) == {seq[i] : i \in 1..Len(seq)}
Downstream == answer.fn = "tracePowerFlow" /\ answer.downstream /\ adjacency_list # <<>>
StartSlot == GetBusInternalIndex(answer.start)

\* the first two parts of C30: the buses returned are start and the buses
\* whose parent chain in the breadth-first forest of the sources passes
\* through start, the branches returned are the branches with both ends
\* among them, both in ascending order; from a single source that is the
\* start, the buses are the buses reachable from it
C30_Subtree ==
    (Downstream /\ StartSlot # 0) =>
        /\ IsBfsForest
        /\ IsAscending(answer.buses) /\ IsAscending(answer.branches)
        /\ Range(answer.buses) = {internal_idx_to_bus_id[v] : v \in Below({StartSlot})}
        /\ Len(answer.buses) = Cardinality(Below({StartSlot}))
        /\ Range(answer.branches) = Inside(Below({StartSlot}))
        /\ (answer.sources = <<answer.start>>) =>
              (Range(answer.buses) =
                  {internal_idx_to_bus_id[v] : v \in Component(StartSlot)})

\* C30 (as stated): C30_Subtree, and when start is a bus of the topology
\* that is not reached from any source the result is {[start], []}.
C30_TraceDownstream ==
    /\ C30_Subtree
    /\ (Downstream /\ StartSlot # 0 /\ StartSlot \notin Fed) =>
          (answer.buses = <<answer.start>> /\ answer.branches = <<>>)

\* C30 (amended): C30_Subtree, and when start is a bus of the topology that
\* is not reached from any source the buses are [start] and the branches are
\* the self-loops of start, so [] when it has none; when start is not a bus
\* of the topology the result is empty.
C30_TraceDownstreamAmended ==
    /\ C30_Subtree
    /\ (Downstream /\ StartSlot # 0 /\ StartSlot \notin Fed) =>
          /\ answer.buses = <<answer.start>>
          /\ Range(answer.branches) = {conn.branch_id : conn \in
                 {d \in Conns(StartSlot) : d.internal_bus_idx = StartSlot}}
          /\ IsAscending(answer.branches)
    /\ (Downstream /\ StartSlot = 0) =>
          (answer.buses = <<>> /\ answer.branches = <<>>)

\* C30 witness: a trace from a bus that is fed through another bus and
\* feeds a third one: two buses and the branch between them are returned.
C30_Witness ==
    /\ Downstream /\ StartSlot # 0
    /\ answer.parent[StartSlot] # 0
    /\ Len(answer.buses) = 2 /\ Len(answer.branches) = 1

\* C30 witness of a start that is not fed: it has a self-loop, which is
\* returned.
C30_WitnessLoop ==
    /\ Downstream /\ StartSlot # 0 /\ StartSlot \notin Fed
    /\ SourceSlots # {}
    /\ Len(answer.branches) = 1

\* C30 witness of two sources: the start is one of them and the other
\* source, in the same island, is not among the buses returned.
C30_WitnessTwoSources ==
    /\ Downstream /\ StartSlot \in SourceSlots
    /\ Cardinality(SourceSlots) = 2 /\ SourceSlots \subseteq Component(StartSlot)
    /\ Len(answer.buses) = 2

Upstream == answer.fn = "tracePowerFlow" /\ ~answer.downstream
\* the slots on the parent chain of slot v, v included
RECURSIVE ChainSlots(_)
ChainSlots(v) ==
    IF answer.parent[v] = 0 THEN {v} ELSE {v} \cup ChainSlots(answer.parent[v])
\* the ids of the branches between slot v and its parent
Joining(v) ==
    {adjacency_list[v][k].branch_id : k \in EntriesTo(v, answer.parent[v])}
DistinctBranchIds ==
    \A u, v \in Slots : \A i \in 1..Len(adjacency_list[u]), j \in 1..Len(adjacency_list[v]) :
        (adjacency_list[u][i].branch_id = adjacency_list[v][j].branch_id)
            => ({u, adjacency_list[u][i].internal_bus_idx}
                  = {v, adjacency_list[v][j].internal_bus_idx})

\* C31 (as stated): the upstream trace returns the buses on the parent chain
\* of start in the breadth-first forest of the sources, in ascending order;
\* the chain of a start that is fed ends at a source and has as many
\* branches as the shortest way from start to a source; the branches
\* returned are one branch for each bus of the chain and its parent, so one
\* fewer than the buses; a start that is a source or is not fed gives
\* {[start], []}, a start that is not in the topology an empty result.
C31_TraceUpstream ==
    /\ (Upstream /\ StartSlot # 0) =>
          /\ IsBfsForest
          /\ IsAscending(answer.buses) /\ IsAscending(answer.branches)
          /\ Range(answer.buses) =
                {internal_idx_to_bus_id[v] : v \in ChainSlots(StartSlot)}
          /\ Len(answer.buses) = Cardinality(ChainSlots(StartSlot))
          /\ (StartSlot \in Fed) =>
                /\ ChainSlots(StartSlot) \cap SourceSlots # {}
                /\ Cardinality(ChainSlots(StartSlot)) = Depth(StartSlot) + 1
          /\ Len(answer.branches) = Len(answer.buses) - 1
          /\ \A v \in ChainSlots(StartSlot) :
                (answer.parent[v] # 0) =>
                    (Cardinality(Joining(v) \cap Range(answer.branches)) = 1)
          /\ \A b \in Range(answer.branches) :
                \E v \in ChainSlots(StartSlot) : answer.parent[v] # 0 /\ b \in Joining(v)
          /\ (StartSlot \in SourceSlots \/ StartSlot \notin Fed) =>
                (answer.buses = <<answer.start>> /\ answer.branches = <<>>)
    /\ (Upstream /\ StartSlot = 0) =>
          (answer.buses = <<>> /\ answer.branches = <<>>)

\* C31 when no branch id was passed twice to buildTopology
C31_UpstreamDistinct ==
    DistinctBranchIds => C31_TraceUpstream

\* C31 witness: the start is two branches away from the only source, and
\* three buses and two branches are returned.
C31_Witness ==
    /\ Upstream /\ StartSlot # 0 /\ DistinctBranchIds
    /\ Len(answer.buses) = 3 /\ Len(answer.branches) = 2

\* the slots joined to the slots of S in the adjacency lists adj when the
\* entries of branch b between slots x and y are left out
StepSkipping(adj, S, x, y, b) ==
    S \cup UNION {{adj[u][k].internal_bus_idx :
                      k \in {j \in 1..Len(adj[u]) :
                          ~(/\ adj[u][j].branch_id = b
                            /\ {u, adj[u][j].internal_bus_idx} = {x, y})}} :
                   u \in S}
RECURSIVE GrowSkipping(_, _, _, _, _)
GrowSkipping(adj, S, x, y, b) ==
    IF StepSkipping(adj, S, x, y, b) = S THEN S
    ELSE GrowSkipping(adj, StepSkipping(adj, S, x, y, b), x, y, b)
\* the branch that was opened was all that joined its two buses
WasBridge ==
    LET u == GetBusInternalIndex(answer.ends[1])
        v == GetBusInternalIndex(answer.ends[2])
    IN  v \notin GrowSkipping(answer.adjacency_before, {u}, u, v, answer.id)
\* the islands findElectricalIslands returns, as sets of bus ids
Classes(isl) ==
    {{a \in DOMAIN isl.map : isl.map[a] = k} : k \in 0..(isl.island_count - 1)}

\* C32: when openBranch(b) opens a branch of branch_endpoints_map, the
\* island count grows by one if b was all that joined its two buses, which
\* are then no longer in one island, and stays as it was otherwise; two
\* buses in different islands before are in different islands after; the
\* islands that b was not in are islands after.
C32_OpenSplitsAtMostOne ==
    (answer.fn = "openBranch" /\ answer.ends # NoBranch) =>
        LET old == Classes(answer.before)
            new == Classes(FindElectricalIslands)
            b1  == answer.ends[1]
            b2  == answer.ends[2]
        IN  /\ result = "true"
            /\ FindElectricalIslands.island_count =
                  answer.before.island_count + (IF WasBridge THEN 1 ELSE 0)
            /\ WasBridge <=> (\A C \in new : ~({b1, b2} \subseteq C))
            /\ WasBridge <=>
                  (GetBusInternalIndex(b2) \notin Component(GetBusInternalIndex(b1)))
            /\ UNION new = UNION old
            /\ \A C \in new : \E D \in old : C \subseteq D
            /\ \A D \in old : (b1 \notin D) => (D \in new)

\* C32 witness: a branch of a network of three buses in one island has been
\* opened and there are two islands.
C32_Witness ==
    /\ answer.fn = "openBranch" /\ result = "true"
    /\ Len(adjacency_list) = 3
    /\ answer.before.island_count = 1 /\ Cardinality(Components) = 2

\* C32 witness of a branch that had a parallel branch: the islands stay.
C32_WitnessParallel ==
    /\ answer.fn = "openBranch" /\ result = "true"
    /\ answer.ends[1] # answer.ends[2]
    /\ answer.before.island_count = Cardinality(Components)

\* C33: openBranch(id) with an id that is not in branch_endpoints_map
\* returns false and changes no container; when it returns true the id is
\* out of branch_endpoints_map, and an id that is out comes back only
\* through a call of buildTopology, so every openBranch(id) in between
\* returns false.
C33_OpenIsTerminal ==
    [][/\ \A b \in BranchIds :
            /\ (OpenBranch(b) /\ branch_endpoints_map[b] = NoBranch) =>
                  /\ result' = "false"
                  /\ UNCHANGED <<adjacency_list, bus_to_internal_idx,
                                 internal_idx_to_bus_id, branch_endpoints_map>>
            /\ (OpenBranch(b) /\ result' = "true") =>
                  (branch_endpoints_map[b] # NoBranch /\ branch_endpoints_map'[b] = NoBranch)
            /\ (branch_endpoints_map[b] = NoBranch /\ branch_endpoints_map'[b] # NoBranch) =>
                  (result' = "void")
    ]_vars

\* C33 witness: openBranch has returned false for a branch id that the
\* network was built with and that was opened before.
C33_Witness ==
    /\ result = "false"
    /\ \E k \in 1..Len(args.branch_ids) :
          /\ branch_endpoints_map[args.branch_ids[k]] = NoBranch
          /\ GetBusInternalIndex(args.branch_endpoints[k][1]) # 0
          /\ GetBusInternalIndex(args.branch_endpoints[k][2]) # 0

\* the loops returned whose buses are all in island k
LoopsIn(k) ==
    {i \in 1..Len(answer.loops) :
        \A j \in 1..Len(answer.loops[i]) : answer.islands.map[answer.loops[i][j]] = k}

\* C34 (as stated): checkRadialIslands reports island k radial iff
\* findAllLoops returns no loop whose buses are all in island k.
C34_LoopsAgreeWithRadial ==
    (answer.fn = "findAllLoops") =>
        \A k \in DOMAIN answer.radial : answer.radial[k] <=> (LoopsIn(k) = {})

\* C34 when no bus id was passed twice to buildTopology and no two branches
\* join the same two buses
C34_AgreeWithoutParallel ==
    (DistinctBusIds /\ \A u, v \in Slots : (u # v) => (Cardinality(EntriesTo(u, v)) <= 1))
        => C34_LoopsAgreeWithRadial

\* C34 witness: a self-loop is returned as a loop of one bus and the island
\* of the bus is reported as not radial.
C34_Witness ==
    /\ answer.fn = "findAllLoops" /\ DistinctBusIds
    /\ Len(answer.loops) = 1 /\ Len(answer.loops[1]) = 1
    /\ \E k \in DOMAIN answer.radial : ~answer.radial[k]

\* C35 (as stated): no step of run_until, from its call to its return,
\* lowers now().
C35_RunUntilKeepsNow ==
    [][(drv.op = "until" \/ drv'.op = "until" \/ drv'.last = "until") => (now' >= now)]_vars

\* the bundled scenario: breaker C is stuck and the scenario task injects
\* one fault, on line C, after initial_delay_ms
Bundled ==
    /\ logic.built
    /\ logic.plan = BundledPlan
    /\ logic.is_stuck_on_trip_cmd = [b \in LogicBreakers |-> b \in BundledStuck]

\* the instants of the bundled scenario (ms)
TripOfMainC == initial_delay_ms + MainTripDelay
TripOfBackupB == initial_delay_ms + BackupBTripDelay
OpeningOfB == TripOfBackupB + BreakerOperatingTime
CheckOfBackupA == initial_delay_ms + BackupATripDelay

\* who commanded which breaker when, for the commands issued so far
Issued == [k \in 1..Len(logic.commands) |->
             <<logic.commands[k].by, logic.commands[k].breaker_to_trip_entity,
               logic.commands[k].at>>]
BundledCommands ==
    << <<prot_main_C_entity, breaker_C_entity, TripOfMainC>>,
       <<prot_backup_B_entity, breaker_B_entity, TripOfBackupB>> >>

\* C36: in the bundled scenario main C commands breaker C at 1050 ms and the
\* breaker stays closed, backup B commands breaker B at 3000 ms and the
\* breaker is open from 3020 ms on, backup A times until 4000 ms and then
\* resets without a command, breakers A and C are closed at every time, no
\* other trip command is issued, and the run ends at 5000 ms.
C36_BundledScenario ==
    Bundled =>
        /\ ~logic.is_open[breaker_A_entity] /\ ~logic.is_open[breaker_C_entity]
        /\ logic.is_open[breaker_B_entity] => (logic.now >= OpeningOfB)
        /\ (logic.now > OpeningOfB) => logic.is_open[breaker_B_entity]
        /\ Len(Issued) <= Len(BundledCommands)
        /\ Issued = SubSeq(BundledCommands, 1, Len(Issued))
        /\ (logic.now > TripOfMainC) => (Len(Issued) >= 1)
        /\ (logic.now > TripOfBackupB) => (Len(Issued) = Len(BundledCommands))
        /\ (logic.now > initial_delay_ms /\ logic.now < CheckOfBackupA)
              => /\ logic.current_state[prot_backup_A_entity] = "TRIPPING_TIMER_RUNNING"
                 /\ logic.pc[prot_backup_A_entity] = "timer"
        /\ (logic.now > CheckOfBackupA)
              => /\ logic.current_state[prot_backup_A_entity] = "IDLE"
                 /\ logic.pc[prot_backup_A_entity] = "fault"
        /\ (logic.run = "returned") => (logic.now = simulation_duration)

\* C36 witness: the bundled run has returned at 5000 ms with breaker B open,
\* two commands issued and backup A waiting for the next fault.
C36_Witness ==
    /\ Bundled /\ logic.run = "returned" /\ logic.now = simulation_duration
    /\ logic.is_open[breaker_B_entity]
    /\ Issued = BundledCommands
    /\ logic.pc[prot_backup_A_entity] = "fault"

\* C36 witness: backup A, resumed at 4000 ms with breaker B open, has gone to
\* RESETTING.
C36_WitnessCheck ==
    /\ Bundled /\ logic.now = CheckOfBackupA
    /\ logic.current_state[prot_backup_A_entity] = "RESETTING"
    /\ logic.is_open[breaker_B_entity]

\* the changes of current_state the device may make
Transitions ==
    {<<"IDLE", "PICKED_UP">>, <<"PICKED_UP", "TRIPPING_TIMER_RUNNING">>,
     <<"TRIPPING_TIMER_RUNNING", "TRIPPED">>, <<"TRIPPING_TIMER_RUNNING", "RESETTING">>,
     <<"TRIPPED", "RESETTING">>, <<"RESETTING", "IDLE">>}

\* the device is suspended in wait_for_event<LogicFaultInfo>
AwaitingFault(p) ==
    /\ logic.pc[p] = "fault"
    /\ \A k \in 1..Len(logic.stack) :
          ~(logic.stack[k].kind = "task" /\ logic.stack[k].h = p)

\* C37: current_state of a protection device changes only along the six
\* transitions, and a device suspended waiting for a fault event is IDLE with
\* fault_currently_seen_on_line empty.
C37_DeviceStates ==
    /\ [](logic.built =>
            \A p \in Protections :
                AwaitingFault(p) => /\ logic.current_state[p] = "IDLE"
                                    /\ logic.fault_currently_seen_on_line[p] = 0)
    /\ [][(logic.built /\ logic'.built) =>
            \A p \in Protections :
                (logic'.current_state[p] # logic.current_state[p])
                    => <<logic.current_state[p], logic'.current_state[p]>> \in Transitions]_vars

\* C37 witness: a device that has tripped, and seen a fault on a line, waits
\* for the next fault event.
C37_Witness ==
    /\ logic.built
    /\ \E p \in Protections :
          /\ AwaitingFault(p)
          /\ \E k \in 1..Len(logic.commands) : logic.commands[k].by = p

\* C37 witness: a device whose timer ran out with the path de-energized is in
\* RESETTING.
C37_WitnessReset ==
    /\ logic.built
    /\ \E p \in Protections :
          /\ logic.current_state[p] = "RESETTING"
          /\ \A k \in 1..Len(logic.commands) : logic.commands[k].by # p

\* the breakers of the lines from line l down to the faulted line f
RECURSIVE ChainBreakers(_, _)
ChainBreakers(l, f) ==
    {LineIdentityComponent(l).associated_breaker_entity}
        \cup IF l = f \/ LineIdentityComponent(l).downstream_line_entity = 0 THEN {}
             ELSE ChainBreakers(LineIdentityComponent(l).downstream_line_entity, f)

\* the breakers between the protected line of p and the fault p has seen
ChainOf(p) ==
    ChainBreakers(ProtectionDeviceComponent(p).protected_line_entity,
                  logic.fault_currently_seen_on_line[p])

\* C38: a trip command is for the commanded breaker of the device, is issued
\* by the step that resumes the device from its trip_delay, trip_delay after
\* the pick-up, with no breaker of the chain open; a device resumed from its
\* trip_delay with a breaker of the chain open goes to RESETTING and issues
\* no command.
C38_TripCommand ==
    /\ [](logic.built =>
            \A k \in 1..Len(logic.commands) :
                LET e == logic.commands[k]
                    c == ProtectionDeviceComponent(e.by)
                IN  /\ e.breaker_to_trip_entity = c.commanded_breaker_entity
                    /\ e.at = e.picked_up_at + c.trip_delay
                    /\ ChainBreakers(c.protected_line_entity, e.fault) \cap e.open = {})
    /\ [][(logic.built /\ logic'.built) =>
            /\ (logic'.commands # logic.commands) =>
                  \E p \in Protections :
                      /\ Executing(p, "timer")
                      /\ logic'.commands =
                            Append(logic.commands, logic'.commands[Len(logic'.commands)])
                      /\ logic'.commands[Len(logic'.commands)].by = p
                      /\ logic'.commands[Len(logic'.commands)].at = logic.now
            /\ \A p \in Protections :
                  (/\ Executing(p, "timer")
                   /\ logic'.pc[p] # "timer"
                   /\ \E b \in ChainOf(p) : logic.is_open[b])
                      => /\ logic'.current_state[p] = "RESETTING"
                         /\ logic'.commands = logic.commands]_vars

\* C38 witness: a backup protection has commanded its breaker for a fault
\* further down, trip_delay after it picked up.
C38_Witness ==
    /\ logic.built
    /\ \E k \in 1..Len(logic.commands) :
          /\ ProtectionDeviceComponent(logic.commands[k].by).type = "BACKUP"
          /\ logic.commands[k].fault
                # ProtectionDeviceComponent(logic.commands[k].by).protected_line_entity

\* C38 witness: a device resumed from its trip_delay has found a breaker of
\* the chain open and is in RESETTING with no command of its own.
C38_WitnessOpened ==
    /\ logic.built
    /\ \E p \in Protections :
          /\ logic.current_state[p] = "RESETTING"
          /\ logic.fault_currently_seen_on_line[p] # 0
          /\ \E b \in ChainOf(p) : logic.is_open[b]
          /\ \A k \in 1..Len(logic.commands) : logic.commands[k].by # p

\* C39 (as stated): when a FaultInfo is delivered to ProtectionSystem::run,
\* every protective component attached to an entity is visited, and for each
\* one whose pick_up is true ENTITY_TRIP_EVENT_PROT with the entity's id is
\* triggered trip_delay_ms later.
C39_FaultReachesProtections ==
    prot.built =>
        \A i \in 1..Len(prot.faults) :
            LET f == prot.faults[i]
            IN  /\ {v[2] : v \in f.visited} = {a[2] : a \in f.attached}
                /\ \A a \in f.attached :
                      LET comp == prot.components[a[1]][a[2]]
                      IN  (/\ PickUp(comp, f.fault_data, a[2])
                           /\ prot.now > f.at + TripDelayMs(comp, f.fault_data))
                             => \E j \in 1..Len(prot.trips) :
                                   /\ prot.trips[j].e = a[2]
                                   /\ prot.trips[j].at = f.at + TripDelayMs(comp, f.fault_data)

\* what the code does instead: a fault delivered to run() visits no
\* component, and no trip is ever triggered
C39_NothingVisited ==
    prot.built =>
        /\ \A i \in 1..Len(prot.faults) : prot.faults[i].visited = {}
        /\ prot.trips = <<>>

\* a delivered fault for which an attached over-current protection picks up
C39_Delivered ==
    /\ prot.built
    /\ \E i \in 1..Len(prot.faults) :
          \E a \in prot.faults[i].attached :
              /\ a[1] = "OverCurrentProtection"
              /\ PickUp(prot.components[a[1]][a[2]], prot.faults[i].fault_data, a[2])

\* C40 (as stated): once the oracle has ended the simulation, every device
\* thread terminates and main's joins return.
C40_DevicesTerminate ==
    (threads.built /\ ~threads.g_simulation_running)
        ~> (threads.built /\ threads.main = "returned"
            /\ \A d \in DeviceThreads : threads.pc[d] = "done")

\* the lost wake-up: the oracle has returned after its last notify_all and a
\* device thread, which found its predicate false before the store, is
\* blocked in wait
C40_LostWakeup ==
    /\ threads.built
    /\ threads.pc[OracleThread] = "done"
    /\ ~threads.g_simulation_running
    /\ \E d \in DeviceThreads : threads.pc[d] = "blocked" /\ d \in threads.cv

\* a thread blocked in wait is woken by nothing but a spurious wake-up once
\* the oracle has returned
C40_StaysBlocked ==
    [][(threads.built /\ threads.pc[OracleThread] = "done")
          => \A d \in DeviceThreads :
                (threads.pc[d] = "blocked" /\ threads'.pc[d] # "blocked")
                    => DeviceSpurious(d)]_vars

====
